---- MODULE Spec2Model ----
(***************************************************************************)
(* Log extractors of the e2e_low_latency_wireless analysis scripts.        *)
(*                                                                         *)
(* One run of the model is one invocation of one script (prog).  A script  *)
(* reads its log file line by line; `input` is the part of the current     *)
(* file read so far and every ReadLine action is the whole body of the     *)
(* script's `for line in f` loop for one more line.                        *)
(*                                                                         *)
(* Numbers: timestamps are whole seconds; an rtt value is in thousandths   *)
(* of a millisecond (rtt:110.093 is 110093).                               *)
(***************************************************************************)
EXTENDS Integers, Sequences, FiniteSets, TLC

VARIABLES
    prog,             \* the script that runs
    pc,               \* its position: "reading", "done"
    input,            \* the lines of the current file read so far
    first_timestamp,  \* ss_csv.py:24 (None until the first float timestamp)
    last_fd,          \* ss_csv.py:18
    flow_srtt_map,    \* ss_csv.py:17  fd -> list of rtt samples
    times,            \* dualq_plot.py:21, fifo_plot.py:24
    delay_c_vals,     \* dualq_plot.py:22
    delay_l_vals,     \* dualq_plot.py:23
    dropped_vals,     \* fifo_plot.py:25
    backlog_pkts,     \* fifo_plot.py:26
    backlog_bytes_vals, \* fifo_plot.py:27
    begin_ts,         \* fifo_plot_multi.py:29
    ret,              \* what the parse function returned
    files,            \* the run files handled so far, in index order
    rnti_to_cu_ue,    \* rlc_no_slice_multi.py:34, rlc_sliced_multi.py:46
    ue_data,          \* rlc_no_slice_multi.py:31  this file's points per UE
    ue_data_all,      \* rlc_no_slice_multi.py:85
    data_ue,          \* rlc_sliced_multi.py:33
    data_slice,       \* rlc_sliced_multi.py:37
    start_idx,        \* iperf_csv.py:56, ss_csv.py:77, fifo_plot_multi.py:77
    end_idx,          \* the last run index of the range
    cur_idx,          \* the loop variable i (exp_idx) of the range scan
    fpos,             \* position in candidate_files of the next file
    disk,             \* what the scan found for each file it looked for
    csv_rows,         \* iperf_csv.py:76, ss_csv.py:92
    cubic_ue_across_runs,   \* iperf_csv.py:86
    prague_ue_across_runs,  \* iperf_csv.py:87
    cubic_sum_run,    \* iperf_csv.py:106
    prague_sum_run,   \* iperf_csv.py:107
    cubic_sum_per_run,      \* iperf_csv.py:92
    prague_sum_per_run,     \* iperf_csv.py:93
    multi_ue_rows,    \* iperf_csv.py:178
    cubic_srtt_list,  \* ss_csv.py:96
    link_speed_bps,   \* fifo_plot_multi.py:87
    all_delays,       \* fifo_plot_multi.py:88
    exit_code,        \* the exit status of the command (None while it runs)
    stdout,           \* the kinds of message printed so far
    written,          \* the output files written so far
    thread1,          \* experiment.py:113  state of the run_prague thread
    thread2,          \* experiment.py:114  state of the run_classic thread
    trace             \* experiment.py: the remote commands issued so far

ssVars == << last_fd, flow_srtt_map >>
dualqVars == << delay_c_vals, delay_l_vals >>
fifoVars == << dropped_vals, backlog_pkts, backlog_bytes_vals, begin_ts >>

rlcVars == << files, rnti_to_cu_ue, ue_data, ue_data_all, data_ue, data_slice >>

rangeVars == << start_idx, end_idx, cur_idx, fpos, disk >>
iperfVars == << cubic_ue_across_runs, prague_ue_across_runs, cubic_sum_run,
               prague_sum_run, cubic_sum_per_run, prague_sum_per_run,
               multi_ue_rows >>
cmdVars == << exit_code, stdout, written >>
expVars == << thread1, thread2, trace >>

\* the variables of the scripts' main functions and of the experiment driver
mainVars == << rangeVars, csv_rows, iperfVars, cubic_srtt_list,
              link_speed_bps, all_delays, cmdVars, expVars >>

vars == << prog, pc, input, first_timestamp, ssVars, times, dualqVars,
           fifoVars, ret, rlcVars, mainVars >>

\* the variables a script does not have keep their starting values
SsIdle == last_fd = -1 /\ flow_srtt_map = << >>
DualqIdle == delay_c_vals = << >> /\ delay_l_vals = << >>
FifoIdle ==
    /\ dropped_vals = << >>
    /\ backlog_pkts = << >>
    /\ backlog_bytes_vals = << >>
    /\ begin_ts = -1
RlcIdle ==
    /\ files = << >>
    /\ rnti_to_cu_ue = << >>
    /\ ue_data = << >>
    /\ ue_data_all = << >>
    /\ data_ue = << >>
    /\ data_slice = << >>
RangeIdle ==
    /\ start_idx = 0
    /\ end_idx = 0
    /\ cur_idx = 0
    /\ fpos = 0
    /\ disk = << >>
IperfIdle ==
    /\ cubic_ue_across_runs = << >>
    /\ prague_ue_across_runs = << >>
    /\ cubic_sum_run = 0
    /\ prague_sum_run = 0
    /\ cubic_sum_per_run = << >>
    /\ prague_sum_per_run = << >>
    /\ multi_ue_rows = << >>
CmdIdle == exit_code = -1 /\ stdout = << >> /\ written = << >>
ExpIdle == thread1 = "none" /\ thread2 = "none" /\ trace = << >>
FifoDelayIdle == link_speed_bps = 0 /\ all_delays = << >>
\* a log extractor called on its own has none of them
MainIdle ==
    /\ RangeIdle
    /\ csv_rows = << >>
    /\ IperfIdle
    /\ cubic_srtt_list = << >>
    /\ FifoDelayIdle
    /\ CmdIdle
    /\ ExpIdle

(***************************************************************************)
(* Bounds of the model.                                                    *)
(***************************************************************************)
\* longest ss log explored line by line over the whole line alphabet
MaxSsLines == 4
\* longest qdisc delay log
MaxDualqLines == 4
\* longest FIFO/TBF log
MaxFifoLines == 4
\* most run indices in a range of gNB logs
MaxRlcFiles == 2
\* most lines in all the gNB logs of a range together
MaxRlcLines == 3

(***************************************************************************)
(* Values shared by the scripts.                                           *)
(***************************************************************************)
\* Python's None for a numeric variable (all real values are >= 0)
None == -1
\* a fragment a regex looks for is absent from the line
NoFrag == -1

\* The first whitespace-delimited token of a line, by the shape of its text:
\*   "blank"   the line has no token at all
\*   "word"    no number (qdisc, [MAC], fd=5, ...)
\*   "int"     digits only                      (60)
\*   "dec"     digits '.' digits                (60.25)
\*   "decjunk" digits '.' digits then more text (60.25: or 60.25abc)
Tok(form, val) == [form |-> form, val |-> val]
BlankTok == Tok("blank", 0)
WordTok == Tok("word", 0)

\* mutant: only a number with a decimal point is taken as a timestamp
FloatParses_DecimalOnly(tok) == tok.form = "dec"

\* float(parts[0]) succeeds: Python's float() takes the whole token
FloatParses(tok) == tok.form \in {"int", "dec"}

(***************************************************************************)
(* ss_csv.py: parse_srtt_from_log                                          *)
(***************************************************************************)
\* ss_csv.py:42  the first 60 seconds of a file are skipped
Warmup == 60
\* ss_csv.py:51  the control flow's descriptor
ControlFd == 4

\* A line of an ss log: its first token, the N of an fd=N fragment and the
\* value of an rtt:<float> fragment (NoFrag when the regex finds none).
SsLine(ts, fd, rtt) == [ts |-> ts, fd |-> fd, rtt |-> rtt]

\* the line alphabet of the exhaustive exploration
SsLines ==
    { SsLine(Tok("dec", 0), NoFrag, NoFrag),
      SsLine(Tok("dec", Warmup - 1), 5, NoFrag),
      SsLine(Tok("dec", Warmup - 1), NoFrag, 1500),
      SsLine(Tok("dec", Warmup), 5, NoFrag),
      SsLine(Tok("dec", Warmup), ControlFd, NoFrag),
      SsLine(Tok("dec", Warmup), NoFrag, 1500),
      SsLine(Tok("dec", Warmup), NoFrag, NoFrag),
      SsLine(Tok("dec", Warmup), 7, 2500),
      SsLine(Tok("int", Warmup), NoFrag, 2500),
      SsLine(Tok("decjunk", Warmup), NoFrag, 1500),
      SsLine(WordTok, NoFrag, NoFrag),
      SsLine(WordTok, ControlFd, NoFrag),
      SsLine(BlankTok, NoFrag, NoFrag) }

\* The seven lines of the pairing example: fd=5, rtt:110.093, fd=4,
\* rtt:999.0, other, fd=7, rtt:50.0 (fd, rtt of each line).
SsExampleBodies ==
    << <<5, NoFrag>>, <<NoFrag, 110093>>, <<ControlFd, NoFrag>>,
       <<NoFrag, 999000>>, <<NoFrag, NoFrag>>, <<7, NoFrag>>,
       <<NoFrag, 50000>> >>

\* a line that only opens the file's clock
SsPreamble == SsLine(Tok("dec", 0), NoFrag, NoFrag)

\* The example is read as written (the fragment is the first token) or with
\* a timestamp in front of the line.
SsExampleTs == { WordTok, Tok("dec", Warmup) }

\* inp is the first lines of the example, after `lead` leading lines
SsIsExamplePrefix(inp, lead) ==
    /\ Len(inp) >= lead
    /\ Len(inp) - lead <= Len(SsExampleBodies)
    /\ \A i \in 1..Len(inp) :
          IF i <= lead
          THEN inp[i] = SsPreamble
          ELSE /\ inp[i].ts \in SsExampleTs
               /\ <<inp[i].fd, inp[i].rtt>> = SsExampleBodies[i - lead]

SsExampleNext(inp, lead) ==
    IF Len(inp) < lead
    THEN { SsPreamble }
    ELSE IF SsIsExamplePrefix(inp, lead) /\ Len(inp) - lead < Len(SsExampleBodies)
         THEN { SsLine(ts, SsExampleBodies[Len(inp) - lead + 1][1],
                       SsExampleBodies[Len(inp) - lead + 1][2]) : ts \in SsExampleTs }
         ELSE {}

\* the lines the file may go on with
SsFeed(inp) ==
    (IF Len(inp) < MaxSsLines THEN SsLines ELSE {})
        \cup SsExampleNext(inp, 0) \cup SsExampleNext(inp, 1)

\* ss_csv.py:29-35  the line is dropped before anything else looks at it
SsNoTimestamp(line) == ~FloatParses(line.ts)

\* ss_csv.py:38-39
SsFirstAfter(line, first) == IF first = None THEN line.ts.val ELSE first

\* mutant: the gate compares the absolute timestamp
SsInWarmup_Absolute(current_ts, first) == current_ts < Warmup

\* ss_csv.py:42
SsInWarmup(current_ts, first) == (current_ts - first) < Warmup

\* mutant: the pending fd is not dropped after the line that follows it
SsLastFdAfter_Keep(line, fd) ==
    IF line.fd # NoFrag
    THEN IF line.fd # ControlFd THEN line.fd ELSE None
    ELSE fd

\* mutant: the control flow's marker is taken like any other
SsLastFdAfter_NoExclusion(line, fd) ==
    IF line.fd # NoFrag THEN line.fd ELSE None

\* ss_csv.py:48-62  last_fd after a line that passed the gate
SsLastFdAfter(line, fd) ==
    IF line.fd # NoFrag
    THEN IF line.fd # ControlFd THEN line.fd ELSE None
    ELSE None

\* flow_srtt_map.setdefault(fd, []).append(v)
MapAppend(map, fd, v) ==
    IF fd \in DOMAIN map
    THEN [map EXCEPT ![fd] = Append(@, v)]
    ELSE map @@ (fd :> <<v>>)

\* ss_csv.py:55-61  flow_srtt_map after a line that passed the gate
SsMapAfter(line, fd, map) ==
    IF line.fd = NoFrag /\ fd # None /\ line.rtt # NoFrag
    THEN MapAppend(map, fd, line.rtt)
    ELSE map

SsInit ==
    /\ prog = "ss"
    /\ pc = "reading"
    /\ input = << >>
    /\ first_timestamp = None
    /\ last_fd = None
    /\ flow_srtt_map = << >>
    /\ times = << >>
    /\ ret = << >>
    /\ DualqIdle
    /\ FifoIdle
    /\ RlcIdle
    /\ MainIdle

\* ss_csv.py:27-62  one pass of the loop body
SsReadLine ==
    /\ prog = "ss"
    /\ pc = "reading"
    /\ \E line \in SsFeed(input) :
          /\ input' = Append(input, line)
          /\ IF SsNoTimestamp(line)
             THEN UNCHANGED << first_timestamp, last_fd, flow_srtt_map >>
             ELSE /\ first_timestamp' = SsFirstAfter(line, first_timestamp)
                  /\ IF SsInWarmup(line.ts.val, first_timestamp')
                     THEN UNCHANGED << last_fd, flow_srtt_map >>
                     ELSE /\ last_fd' = SsLastFdAfter(line, last_fd)
                          /\ flow_srtt_map' = SsMapAfter(line, last_fd, flow_srtt_map)
    /\ UNCHANGED mainVars
    /\ UNCHANGED << prog, pc, times, dualqVars, fifoVars, ret, rlcVars >>

\* ss_csv.py:64  end of file
SsReturn ==
    /\ prog = "ss"
    /\ pc = "reading"
    /\ pc' = "done"
    /\ ret' = flow_srtt_map
    /\ UNCHANGED mainVars
    /\ UNCHANGED << prog, input, first_timestamp, ssVars, times, dualqVars, fifoVars,
                    rlcVars >>

SsNext == SsReadLine \/ SsReturn

SpecSs == SsInit /\ [][SsNext]_vars

(***************************************************************************)
(* dualq_plot.py: parse_dualq_monitor_delay_only                           *)
(***************************************************************************)
\* A line of a dualq monitor log: its first token and the numbers of a
\* "delay_c <A>us delay_l <B>us" fragment.  pattern_delay needs the two
\* tokens side by side, so a line with one of them only has the other
\* NoFrag and the pattern does not match it.
DualqLine(ts, dc, dl) == [ts |-> ts, dc |-> dc, dl |-> dl]

DualqLines ==
    { DualqLine(Tok("dec", 10), 100, 200),
      DualqLine(Tok("dec", 10), 300, 400),
      DualqLine(Tok("dec", 20), 100, 200),
      DualqLine(Tok("dec", 20), 300, 400),
      DualqLine(Tok("dec", 10), 100, NoFrag),
      DualqLine(Tok("dec", 10), NoFrag, 200),
      DualqLine(Tok("dec", 10), NoFrag, NoFrag),
      DualqLine(Tok("int", 10), 100, 200),
      DualqLine(Tok("decjunk", 30), 100, 200),
      DualqLine(WordTok, 100, 200),
      DualqLine(BlankTok, NoFrag, NoFrag) }

\* dualq_plot.py:28,39  pattern_time = ^(\d+\.\d+) matched at the start of
\* the stripped line: the text after the decimal number is not looked at,
\* and a token of digits only does not match
PatternTimeMatches(tok) == tok.form \in {"dec", "decjunk"}

\* mutant: a line with one of the two delay tokens is taken
PatternDelayMatches_Either(line) == line.dc # NoFrag \/ line.dl # NoFrag

\* dualq_plot.py:29,49  pattern_delay.search(line)
PatternDelayMatches(line) == line.dc # NoFrag /\ line.dl # NoFrag

\* dualq_plot.py:34-51  the line gives a sample
DualqTakes(line) ==
    /\ line.ts.form # "blank"
    /\ PatternTimeMatches(line.ts)
    /\ PatternDelayMatches(line)

\* zip(a, b, c)
Zip3(a, b, c) == [i \in 1..Len(a) |-> << a[i], b[i], c[i] >>]

\* sorted(..., key=lambda x: x[0]) is stable: x goes behind the elements
\* whose key is not larger
RECURSIVE InsertByKey(_, _)
InsertByKey(s, x) ==
    IF s = << >>
    THEN << x >>
    ELSE IF s[Len(s)][1] <= x[1]
         THEN Append(s, x)
         ELSE Append(InsertByKey(SubSeq(s, 1, Len(s) - 1), x), s[Len(s)])

RECURSIVE SortedByKey(_)
SortedByKey(s) ==
    IF s = << >>
    THEN << >>
    ELSE InsertByKey(SortedByKey(SubSeq(s, 1, Len(s) - 1)), s[Len(s)])

Column(s, k) == [i \in 1..Len(s) |-> s[i][k]]

\* mutant: only the timestamps are sorted
DualqResult_TimesOnly(t, c, l) ==
    << Column(SortedByKey(Zip3(t, t, t)), 1), c, l >>

\* dualq_plot.py:63-69  sort by time, unzip
DualqResult(t, c, l) ==
    LET combined == SortedByKey(Zip3(t, c, l))
    IN  IF combined = << >>
        THEN << << >>, << >>, << >> >>
        ELSE << Column(combined, 1), Column(combined, 2), Column(combined, 3) >>

DualqInit ==
    /\ prog = "dualq"
    /\ pc = "reading"
    /\ input = << >>
    /\ first_timestamp = None
    /\ times = << >>
    /\ delay_c_vals = << >>
    /\ delay_l_vals = << >>
    /\ ret = << >>
    /\ SsIdle
    /\ FifoIdle
    /\ RlcIdle
    /\ MainIdle

\* dualq_plot.py:33-57  one pass of the loop body
DualqReadLine ==
    /\ prog = "dualq"
    /\ pc = "reading"
    /\ Len(input) < MaxDualqLines
    /\ \E line \in DualqLines :
          /\ input' = Append(input, line)
          /\ IF DualqTakes(line)
             THEN /\ times' = Append(times, line.ts.val)
                  /\ delay_c_vals' = Append(delay_c_vals, line.dc)
                  /\ delay_l_vals' = Append(delay_l_vals, line.dl)
             ELSE UNCHANGED << times, dualqVars >>
    /\ UNCHANGED mainVars
    /\ UNCHANGED << prog, pc, first_timestamp, ssVars, fifoVars, ret, rlcVars >>

\* dualq_plot.py:63-69  end of file: sort and return
DualqReturn ==
    /\ prog = "dualq"
    /\ pc = "reading"
    /\ pc' = "done"
    /\ ret' = DualqResult(times, delay_c_vals, delay_l_vals)
    /\ UNCHANGED mainVars
    /\ UNCHANGED << prog, input, first_timestamp, ssVars, times, dualqVars, fifoVars,
                    rlcVars >>

DualqNext == DualqReadLine \/ DualqReturn

SpecDualq == DualqInit /\ [][DualqNext]_vars

(***************************************************************************)
(* fifo_plot.py and fifo_plot_multi.py: parse_fifo_file                    *)
(***************************************************************************)
\* A line of a fifo monitor log: its first token, the N of "(dropped N,"
\* and the two numbers of "backlog <bytes>b <packets>p" (one regex: both
\* or none).
FifoLine(ts, dropped, bbytes, bpkts) ==
    [ts |-> ts, dropped |-> dropped, bbytes |-> bbytes, bpkts |-> bpkts]

FifoLines ==
    { FifoLine(Tok("dec", 0), 1, 1500, 1),
      FifoLine(Tok("dec", Warmup - 1), 2, 3000, 2),
      FifoLine(Tok("dec", Warmup), 3, 4500, 3),
      FifoLine(Tok("dec", Warmup), 3, 0, 0),
      FifoLine(Tok("dec", Warmup), 4, NoFrag, NoFrag),
      FifoLine(Tok("dec", Warmup), NoFrag, 6000, 4),
      FifoLine(Tok("dec", Warmup), NoFrag, NoFrag, NoFrag),
      FifoLine(Tok("int", Warmup), 5, 7500, 5),
      FifoLine(Tok("decjunk", Warmup), 6, 9000, 6),
      FifoLine(WordTok, 7, 10500, 7),
      FifoLine(BlankTok, NoFrag, NoFrag, NoFrag) }

\* fifo_plot.py:31-44  blank line, or float(parts[0]) raises ValueError
FifoNoTimestamp(line) == line.ts.form = "blank" \/ ~FloatParses(line.ts)

\* fifo_plot_multi.py:48-50
FifoBeginAfter(ts, begin) == IF begin < 0 THEN ts ELSE begin

\* fifo_plot_multi.py:52  (fifo_plot.py has no gate)
FifoInWarmup(p, ts, begin) == p = "fifo_multi" /\ (ts - begin) < Warmup

\* mutant: the sample is stored before the backlog fragment is looked for
FifoFragmentsMatch_NoBacklog(line) == line.dropped # NoFrag

\* fifo_plot.py:47-55  both regexes find their fragment
FifoFragmentsMatch(line) == line.dropped # NoFrag /\ line.bbytes # NoFrag

FifoInit ==
    /\ prog \in {"fifo", "fifo_multi"}
    /\ pc = "reading"
    /\ input = << >>
    /\ first_timestamp = None
    /\ times = << >>
    /\ dropped_vals = << >>
    /\ backlog_pkts = << >>
    /\ backlog_bytes_vals = << >>
    /\ begin_ts = -1
    /\ ret = << >>
    /\ SsIdle
    /\ DualqIdle
    /\ RlcIdle
    /\ MainIdle

\* fifo_plot.py:30-63, fifo_plot_multi.py:32-72  one pass of the loop body
FifoReadLine ==
    /\ prog \in {"fifo", "fifo_multi"}
    /\ pc = "reading"
    /\ Len(input) < MaxFifoLines
    /\ \E line \in FifoLines :
          /\ input' = Append(input, line)
          /\ IF FifoNoTimestamp(line)
             THEN UNCHANGED << times, fifoVars >>
             ELSE /\ begin_ts' = IF prog = "fifo_multi"
                                 THEN FifoBeginAfter(line.ts.val, begin_ts)
                                 ELSE begin_ts
                  /\ IF \/ FifoInWarmup(prog, line.ts.val, begin_ts')
                        \/ ~FifoFragmentsMatch(line)
                     THEN UNCHANGED << times, dropped_vals, backlog_pkts,
                                       backlog_bytes_vals >>
                     ELSE /\ times' = Append(times, line.ts.val)
                          /\ dropped_vals' = Append(dropped_vals, line.dropped)
                          /\ backlog_pkts' = Append(backlog_pkts, line.bpkts)
                          /\ backlog_bytes_vals' =
                                Append(backlog_bytes_vals, line.bbytes)
    /\ UNCHANGED mainVars
    /\ UNCHANGED << prog, pc, first_timestamp, ssVars, dualqVars, ret, rlcVars >>

\* fifo_plot.py:65  end of file
FifoReturn ==
    /\ prog \in {"fifo", "fifo_multi"}
    /\ pc = "reading"
    /\ pc' = "done"
    /\ ret' = << times, dropped_vals, backlog_pkts, backlog_bytes_vals >>
    /\ UNCHANGED mainVars
    /\ UNCHANGED << prog, input, first_timestamp, ssVars, times, dualqVars, fifoVars,
                    rlcVars >>

FifoNext == FifoReadLine \/ FifoReturn

SpecFifo == FifoInit /\ [][FifoNext]_vars

(***************************************************************************)
(* rlc_no_slice_multi.py: aggregate_rlc_buffers, parse_gnb_log_file        *)
(* rlc_sliced_multi.py:   analyze_logs_for_range                           *)
(***************************************************************************)
\* A line of a gNB log.  kind is the pattern the text has the shape of:
\*   "map"   UE RNTI <hex> CU-UE-ID <n> in-sync
\*   "buf"   ... RLC status for UE <dec>: <n> bytes in buffer
\*   "sbuf"  ... RLC status for UE <dec>, slice <k>: <n> bytes in buffer
\*   "noise" anything else
\* rnti is the RNTI as written, a list of digits: hexadecimal digits in a
\* map line, decimal digits in a buffer line.
RlcLine(kind, rnti, ue, ts, slice, buf) ==
    [kind |-> kind, rnti |-> rnti, ue |-> ue, ts |-> ts, slice |-> slice, buf |-> buf]

RlcMapLines ==
    { RlcLine("map", << 1, 0 >>, "1", 0, "", 0),
      RlcLine("map", << 1, 0 >>, "2", 0, "", 0),
      RlcLine("map", << 10 >>, "3", 0, "", 0) }

RlcBufLines ==
    { RlcLine("buf", << 1, 6 >>, "", 100, "", 7),
      RlcLine("buf", << 1, 6 >>, "", 160, "", 9),
      RlcLine("buf", << 1, 0 >>, "", 100, "", 5) }

RlcSliceBufLines ==
    { RlcLine("sbuf", << 1, 6 >>, "", 100, "1", 7),
      RlcLine("sbuf", << 1, 6 >>, "", 161, "2", 9),
      RlcLine("sbuf", << 1, 0 >>, "", 100, "1", 5) }

RlcNoise == RlcLine("noise", << >>, "", 0, "", 0)

\* the lines of a log the script p may meet
RlcLines(p) ==
    RlcMapLines \cup { RlcNoise } \cup
    IF p = "rlc_multi"
    THEN RlcBufLines \cup { RlcLine("sbuf", << 1, 6 >>, "", 100, "1", 7) }
    ELSE RlcSliceBufLines \cup { RlcLine("buf", << 1, 6 >>, "", 100, "", 7) }

\* int(hex_str, 16)
RECURSIVE HexValue(_)
HexValue(digits) ==
    IF digits = << >>
    THEN 0
    ELSE 16 * HexValue(SubSeq(digits, 1, Len(digits) - 1)) + digits[Len(digits)]

\* str(dec_val): the decimal digits, no leading zero
RECURSIVE DecString(_)
DecString(n) ==
    IF n < 10 THEN << n >> ELSE Append(DecString(n \div 10), n % 10)

\* mutant: the hexadecimal text is used as the key as it stands
RntiKey_NoConversion(hex_str) == hex_str

\* rlc_no_slice_multi.py:49-50, rlc_sliced_multi.py:56-57
RntiKey(hex_str) == DecString(HexValue(hex_str))

\* mutant: an RNTI keeps the first UE id it was mapped to
RlcMapAfter_FirstWins(map, line) ==
    IF RntiKey(line.rnti) \in DOMAIN map
    THEN map
    ELSE map @@ (RntiKey(line.rnti) :> line.ue)

\* rlc_no_slice_multi.py:51, rlc_sliced_multi.py:57  rnti_to_cu_ue[key] = id
RlcMapAfter(map, line) ==
    [k \in DOMAIN map \cup { RntiKey(line.rnti) } |->
        IF k = RntiKey(line.rnti) THEN line.ue ELSE map[k]]

\* mutant: the mapping of the file before is still there
RlcMapAtOpen_Kept(map) == map

\* rlc_no_slice_multi.py:34, rlc_sliced_multi.py:46  rnti_to_cu_ue = {}
RlcMapAtOpen(map) == << >>

\* mutant: a buffer line of an RNTI not mapped yet is given to UE 1
RlcUeOf_FirstUe(map, rnti) == IF rnti \in DOMAIN map THEN map[rnti] ELSE "1"

\* rlc_no_slice_multi.py:66, rlc_sliced_multi.py:72
RlcUeOf(map, rnti) == IF rnti \in DOMAIN map THEN map[rnti] ELSE "UNKNOWN"

\* mutant: the reference moves to every buffer line
RlcFirstAfter_Latest(first, timestamp) == timestamp

\* rlc_no_slice_multi.py:61-63, rlc_sliced_multi.py:67-69
RlcFirstAfter(first, timestamp) == IF first = None THEN timestamp ELSE first

\* defaultdict(list)[k].append(v)
ListAppend(d, k, v) ==
    IF k \in DOMAIN d THEN [d EXCEPT ![k] = Append(@, v)] ELSE d @@ (k :> << v >>)

\* rlc_sliced_multi.py:77-79 and 82-84: the "all" list always, the "post60"
\* list when rel_time > 60
SlicedAppend(d, k, rel_time, v) ==
    LET old == IF k \in DOMAIN d THEN d[k] ELSE [all |-> << >>, post60 |-> << >>]
        new == [all |-> Append(old.all, v),
                post60 |-> IF rel_time > Warmup
                           THEN Append(old.post60, v)
                           ELSE old.post60]
    IN  [x \in DOMAIN d \cup { k } |-> IF x = k THEN new ELSE d[x]]

\* mutant: the points of a file take the place of the points before
RlcMerge_Replace(all, file_data) ==
    [u \in DOMAIN all \cup DOMAIN file_data |->
        IF u \in DOMAIN file_data THEN file_data[u] ELSE all[u]]

\* rlc_no_slice_multi.py:106-109
RlcMerge(all, file_data) ==
    [u \in DOMAIN all \cup DOMAIN file_data |->
        (IF u \in DOMAIN all THEN all[u] ELSE << >>)
            \o (IF u \in DOMAIN file_data THEN file_data[u] ELSE << >>)]

RECURSIVE TotalLines(_)
TotalLines(fs) ==
    IF fs = << >>
    THEN 0
    ELSE TotalLines(SubSeq(fs, 1, Len(fs) - 1)) + Len(fs[Len(fs)].lines)

RlcProgs == { "rlc_multi", "rlc_sliced_multi" }

RlcInit ==
    /\ prog \in RlcProgs
    /\ pc = "scan"
    /\ input = << >>
    /\ first_timestamp = None
    /\ files = << >>
    /\ rnti_to_cu_ue = << >>
    /\ ue_data = << >>
    /\ ue_data_all = IF prog = "rlc_multi"
                     THEN [u \in { "1", "2", "3", "4" } |-> << >>]
                     ELSE << >>
    /\ data_ue = << >>
    /\ data_slice = << >>
    /\ times = << >>
    /\ ret = << >>
    /\ SsIdle
    /\ DualqIdle
    /\ FifoIdle
    /\ MainIdle

\* rlc_no_slice_multi.py:96-98, rlc_sliced_multi.py:42-44  no file for this
\* index: warn and go on
RlcMissingFile ==
    /\ prog \in RlcProgs
    /\ pc = "scan"
    /\ Len(files) < MaxRlcFiles
    /\ files' = Append(files, [exists |-> FALSE, lines |-> << >>])
    /\ UNCHANGED mainVars
    /\ UNCHANGED << prog, pc, input, first_timestamp, ssVars, times, dualqVars,
                    fifoVars, ret, rnti_to_cu_ue, ue_data, ue_data_all, data_ue,
                    data_slice >>

\* rlc_no_slice_multi.py:100,31-36, rlc_sliced_multi.py:46-50  the file of
\* this index is opened
RlcOpenFile ==
    /\ prog \in RlcProgs
    /\ pc = "scan"
    /\ Len(files) < MaxRlcFiles
    /\ pc' = "reading"
    /\ input' = << >>
    /\ rnti_to_cu_ue' = RlcMapAtOpen(rnti_to_cu_ue)
    /\ first_timestamp' = None
    /\ ue_data' = << >>
    /\ UNCHANGED mainVars
    /\ UNCHANGED << prog, ssVars, times, dualqVars, fifoVars, ret, files,
                    ue_data_all, data_ue, data_slice >>

\* rlc_no_slice_multi.py:40-68  one pass of the loop body
RlcReadLine ==
    /\ prog = "rlc_multi"
    /\ pc = "reading"
    /\ TotalLines(files) + Len(input) < MaxRlcLines
    /\ \E line \in RlcLines(prog) :
          /\ input' = Append(input, line)
          /\ IF line.kind = "map"
             THEN /\ rnti_to_cu_ue' = RlcMapAfter(rnti_to_cu_ue, line)
                  /\ UNCHANGED << first_timestamp, ue_data >>
             ELSE IF line.kind = "buf"
                  THEN /\ first_timestamp' = RlcFirstAfter(first_timestamp, line.ts)
                       /\ ue_data' = ListAppend(ue_data,
                                                RlcUeOf(rnti_to_cu_ue, line.rnti),
                                                << line.ts - first_timestamp', line.buf >>)
                       /\ UNCHANGED rnti_to_cu_ue
                  ELSE UNCHANGED << first_timestamp, rnti_to_cu_ue, ue_data >>
    /\ UNCHANGED mainVars
    /\ UNCHANGED << prog, pc, ssVars, times, dualqVars, fifoVars, ret, files,
                    ue_data_all, data_ue, data_slice >>

\* rlc_no_slice_multi.py:74,100-109  end of file: the file's points are
\* added to the points of all files (nothing to add when there are none)
RlcCloseFile ==
    /\ prog = "rlc_multi"
    /\ pc = "reading"
    /\ pc' = "scan"
    /\ files' = Append(files, [exists |-> TRUE, lines |-> input])
    /\ ue_data_all' = IF ue_data = << >>
                      THEN ue_data_all
                      ELSE RlcMerge(ue_data_all, ue_data)
    /\ UNCHANGED mainVars
    /\ UNCHANGED << prog, input, first_timestamp, ssVars, times, dualqVars,
                    fifoVars, ret, rnti_to_cu_ue, ue_data, data_ue, data_slice >>

\* rlc_sliced_multi.py:51-84  one pass of the loop body
SlicedReadLine ==
    /\ prog = "rlc_sliced_multi"
    /\ pc = "reading"
    /\ TotalLines(files) + Len(input) < MaxRlcLines
    /\ \E line \in RlcLines(prog) :
          /\ input' = Append(input, line)
          /\ IF line.kind = "map"
             THEN /\ rnti_to_cu_ue' = RlcMapAfter(rnti_to_cu_ue, line)
                  /\ UNCHANGED << first_timestamp, data_ue, data_slice >>
             ELSE IF line.kind = "sbuf"
                  THEN /\ first_timestamp' = RlcFirstAfter(first_timestamp, line.ts)
                       /\ data_ue' = SlicedAppend(data_ue,
                                                  RlcUeOf(rnti_to_cu_ue, line.rnti),
                                                  line.ts - first_timestamp', line.buf)
                       /\ data_slice' = SlicedAppend(data_slice, line.slice,
                                                     line.ts - first_timestamp', line.buf)
                       /\ UNCHANGED rnti_to_cu_ue
                  ELSE UNCHANGED << first_timestamp, rnti_to_cu_ue, data_ue, data_slice >>
    /\ UNCHANGED mainVars
    /\ UNCHANGED << prog, pc, ssVars, times, dualqVars, fifoVars, ret, files,
                    ue_data, ue_data_all >>

\* rlc_sliced_multi.py:50-51  end of file
SlicedCloseFile ==
    /\ prog = "rlc_sliced_multi"
    /\ pc = "reading"
    /\ pc' = "scan"
    /\ files' = Append(files, [exists |-> TRUE, lines |-> input])
    /\ UNCHANGED mainVars
    /\ UNCHANGED << prog, input, first_timestamp, ssVars, times, dualqVars,
                    fifoVars, ret, rnti_to_cu_ue, ue_data, ue_data_all, data_ue,
                    data_slice >>

\* rlc_no_slice_multi.py:111, rlc_sliced_multi.py:86  the range is done
RlcFinish ==
    /\ prog \in RlcProgs
    /\ pc = "scan"
    /\ pc' = "done"
    /\ ret' = IF prog = "rlc_multi" THEN ue_data_all ELSE << >>
    /\ UNCHANGED mainVars
    /\ UNCHANGED << prog, input, first_timestamp, ssVars, times, dualqVars,
                    fifoVars, rlcVars >>

RlcNext ==
    \/ RlcMissingFile
    \/ RlcOpenFile
    \/ RlcReadLine
    \/ RlcCloseFile
    \/ SlicedReadLine
    \/ SlicedCloseFile
    \/ RlcFinish

SpecRlc == RlcInit /\ [][RlcNext]_vars

(***************************************************************************)
(* One invocation of any of the log extractors.                             *)
(***************************************************************************)
Init == SsInit \/ DualqInit \/ FifoInit \/ RlcInit

Next == SsNext \/ DualqNext \/ FifoNext \/ RlcNext

Spec == Init /\ [][Next]_vars

(***************************************************************************)
(* What the ss log read so far says, line by line (used by the claims).    *)
(***************************************************************************)
\* the token reads as a floating-point number: digits, with or without a
\* decimal point, and nothing else
ParseableAsFloat(tok) == tok.form \in { "int", "dec" }

\* index of the first line whose first token is a float (0 when none)
SsFirstTsIdx(inp) ==
    IF \E i \in 1..Len(inp) : ParseableAsFloat(inp[i].ts)
    THEN CHOOSE i \in 1..Len(inp) :
            /\ ParseableAsFloat(inp[i].ts)
            /\ \A j \in 1..(i - 1) : ~ParseableAsFloat(inp[j].ts)
    ELSE 0

\* seconds of line i after the file's first timestamp
SsRelTime(inp, i) == inp[i].ts.val - inp[SsFirstTsIdx(inp)].ts.val

\* line i carries a float timestamp at least Warmup after the file's first
SsAccepted(inp, i) == ParseableAsFloat(inp[i].ts) /\ SsRelTime(inp, i) >= Warmup

\* the accepted line before line i (0 when none)
SsPrevAccepted(inp, i) ==
    IF \E j \in 1..(i - 1) : SsAccepted(inp, j)
    THEN CHOOSE j \in 1..(i - 1) :
            /\ SsAccepted(inp, j)
            /\ \A k \in (j + 1)..(i - 1) : ~SsAccepted(inp, k)
    ELSE 0

SsIsMarker(line) == line.fd # NoFrag
SsIsRttLine(line) == line.rtt # NoFrag /\ line.fd = NoFrag

\* line i is an accepted rtt line right after an accepted marker, fd # 4
SsPairs(inp, i) ==
    /\ SsAccepted(inp, i)
    /\ SsIsRttLine(inp[i])
    /\ SsPrevAccepted(inp, i) # 0
    /\ SsIsMarker(inp[SsPrevAccepted(inp, i)])
    /\ inp[SsPrevAccepted(inp, i)].fd # ControlFd

RECURSIVE SsPairedUpTo(_, _)
SsPairedUpTo(inp, k) ==
    IF k = 0
    THEN << >>
    ELSE IF SsPairs(inp, k)
         THEN MapAppend(SsPairedUpTo(inp, k - 1),
                        inp[SsPrevAccepted(inp, k)].fd, inp[k].rtt)
         ELSE SsPairedUpTo(inp, k - 1)

\* the same reading of the file with every line taken as it stands: an rtt
\* line pairs with the marker on the line just before it
SsPairsRaw(inp, i) ==
    /\ i > 1
    /\ inp[i].rtt # NoFrag
    /\ SsIsMarker(inp[i - 1])
    /\ inp[i - 1].fd # ControlFd

RECURSIVE SsPairedRawUpTo(_, _)
SsPairedRawUpTo(inp, k) ==
    IF k = 0
    THEN << >>
    ELSE IF SsPairsRaw(inp, k)
         THEN MapAppend(SsPairedRawUpTo(inp, k - 1), inp[k - 1].fd, inp[k].rtt)
         ELSE SsPairedRawUpTo(inp, k - 1)

\* the example file: `lead` preamble lines, then the seven lines, each with
\* the first token ts
SsExampleFile(lead, ts) ==
    [i \in 1..(lead + Len(SsExampleBodies)) |->
        IF i <= lead
        THEN SsPreamble
        ELSE SsLine(ts, SsExampleBodies[i - lead][1], SsExampleBodies[i - lead][2])]

SsExampleSamples == (5 :> << 110093 >>) @@ (7 :> << 50000 >>)

(***************************************************************************)
(* C1 (as amended).  Among the lines that carry a float timestamp at least *)
(* 60 s after the file's first timestamp (the only lines the extractor     *)
(* looks at), one sample is recorded for exactly each rtt line without an  *)
(* fd= fragment whose preceding such line is an fd marker with fd # 4,     *)
(* tagged with that marker's fd, and a marker is used by at most one line. *)
(* The seven example lines, each behind a timestamp 60 s after an opening  *)
(* line, give exactly 5 -> 110.093 and 7 -> 50.0.                          *)
(***************************************************************************)
C1_SamplesAreAcceptedPairs ==
    /\ flow_srtt_map = SsPairedUpTo(input, Len(input))
    /\ input = SsExampleFile(1, Tok("dec", Warmup)) => flow_srtt_map = SsExampleSamples

\* C1 witness: the timestamped example has been read to its end
C1_Witness ==
    /\ input = SsExampleFile(1, Tok("dec", Warmup))
    /\ flow_srtt_map = SsExampleSamples

\* C1 as stated: every rtt line right after a marker with fd # 4 gives a
\* sample, whatever the lines' timestamps, and the example as written gives
\* the two samples.
C1_Original ==
    /\ flow_srtt_map = SsPairedRawUpTo(input, Len(input))
    /\ input = SsExampleFile(0, WordTok) => flow_srtt_map = SsExampleSamples

(***************************************************************************)
(* C2.  A line that is not an rtt line, coming between an fd marker and a  *)
(* later rtt line, cancels the pending fd: a line that is not right after  *)
(* a marker line never adds a sample.                                      *)
(***************************************************************************)
C2_InterveningLineInvalidates ==
    [][ (/\ Len(input') = Len(input) + 1
         /\ \/ Len(input) = 0
            \/ ~SsIsMarker(input[Len(input)]))
        => flow_srtt_map' = flow_srtt_map ]_vars

C4_WarmupGate ==
    [][ (/\ Len(input') = Len(input) + 1
         /\ ParseableAsFloat(input'[Len(input')].ts)
         /\ SsRelTime(input', Len(input')) < Warmup)
        => /\ flow_srtt_map' = flow_srtt_map
           /\ last_fd' = last_fd ]_vars

\* C4 witness: a marker 59 s into the file, an rtt line at 60 s, no sample
C4_Witness ==
    /\ input = << SsPreamble,
                  SsLine(Tok("dec", Warmup - 1), 5, NoFrag),
                  SsLine(Tok("dec", Warmup), NoFrag, 1500) >>
    /\ flow_srtt_map = << >>

(***************************************************************************)
(* What a dualq or fifo log read so far says (used by the claims).         *)
(***************************************************************************)
\* the line begins with a decimal timestamp and has both delay tokens
DualqWellFormed(line) ==
    /\ line.ts.form \in {"dec", "decjunk"}
    /\ line.dc # NoFrag
    /\ line.dl # NoFrag

RECURSIVE DualqSamplesOf(_)
DualqSamplesOf(inp) ==
    IF inp = << >>
    THEN << >>
    ELSE LET line == inp[Len(inp)]
             before == DualqSamplesOf(SubSeq(inp, 1, Len(inp) - 1))
         IN  IF DualqWellFormed(line)
             THEN Append(before, << line.ts.val, line.dc, line.dl >>)
             ELSE before

Count(s, x) == Cardinality({ i \in 1..Len(s) : s[i] = x })
Range(s) == { s[i] : i \in 1..Len(s) }

\* line i of a fifo log has a float timestamp and both fragments (and lies
\* past the warm-up when the gated parser reads it)
FifoComplete(p, inp, i) ==
    /\ ParseableAsFloat(inp[i].ts)
    /\ inp[i].dropped # NoFrag
    /\ inp[i].bbytes # NoFrag
    /\ inp[i].bpkts # NoFrag
    /\ p = "fifo_multi" => SsRelTime(inp, i) >= Warmup

RECURSIVE FifoSamplesUpTo(_, _, _)
FifoSamplesUpTo(p, inp, k) ==
    IF k = 0
    THEN << >>
    ELSE IF FifoComplete(p, inp, k)
         THEN Append(FifoSamplesUpTo(p, inp, k - 1),
                     << inp[k].ts.val, inp[k].dropped, inp[k].bpkts, inp[k].bbytes >>)
         ELSE FifoSamplesUpTo(p, inp, k - 1)

C8_FifoListsAligned ==
    prog \in {"fifo", "fifo_multi"}
    => /\ Len(dropped_vals) = Len(times)
       /\ Len(backlog_pkts) = Len(times)
       /\ Len(backlog_bytes_vals) = Len(times)
       /\ [i \in 1..Len(times) |->
             << times[i], dropped_vals[i], backlog_pkts[i], backlog_bytes_vals[i] >>]
          = FifoSamplesUpTo(prog, input, Len(input))

\* C8 witness: a complete line, a line without backlog, a complete line
C8_Witness ==
    /\ prog = "fifo"
    /\ input = << FifoLine(Tok("dec", Warmup), 3, 4500, 3),
                  FifoLine(Tok("dec", Warmup), 4, NoFrag, NoFrag),
                  FifoLine(Tok("dec", Warmup), 3, 0, 0) >>
    /\ times = << Warmup, Warmup >>
    /\ dropped_vals = << 3, 3 >>
    /\ backlog_pkts = << 3, 0 >>
    /\ backlog_bytes_vals = << 4500, 0 >>

(***************************************************************************)
(* What the gNB logs read so far say (used by the claims).                 *)
(***************************************************************************)
\* the number a decimal text stands for
RECURSIVE DecValue(_)
DecValue(digits) ==
    IF digits = << >>
    THEN 0
    ELSE 10 * DecValue(SubSeq(digits, 1, Len(digits) - 1)) + digits[Len(digits)]

\* the script p takes the line as a buffer line
RlcIsBufferLine(p, line) ==
    \/ p = "rlc_multi" /\ line.kind = "buf"
    \/ p = "rlc_sliced_multi" /\ line.kind = "sbuf"

\* line k of the file is a mapping line for the RNTI of buffer line i
RlcMapsRntiOf(lines, k, i) ==
    /\ lines[k].kind = "map"
    /\ HexValue(lines[k].rnti) = DecValue(lines[i].rnti)

\* the UE of buffer line i by the mapping lines before it in its own file
RlcAttribution(lines, i) ==
    IF \E k \in 1..(i - 1) : RlcMapsRntiOf(lines, k, i)
    THEN lines[CHOOSE k \in 1..(i - 1) :
                  /\ RlcMapsRntiOf(lines, k, i)
                  /\ \A m \in (k + 1)..(i - 1) : ~RlcMapsRntiOf(lines, m, i)].ue
    ELSE "UNKNOWN"

\* timestamp of the first buffer line of the file
RlcFileStart(p, lines) ==
    lines[CHOOSE i \in 1..Len(lines) :
             /\ RlcIsBufferLine(p, lines[i])
             /\ \A j \in 1..(i - 1) : ~RlcIsBufferLine(p, lines[j])].ts

\* the (rel_time, buffer_size) points of UE u in the first k lines of a file
RECURSIVE RlcFilePoints(_, _, _, _)
RlcFilePoints(p, lines, u, k) ==
    IF k = 0
    THEN << >>
    ELSE IF RlcIsBufferLine(p, lines[k]) /\ RlcAttribution(lines, k) = u
         THEN Append(RlcFilePoints(p, lines, u, k - 1),
                     << lines[k].ts - RlcFileStart(p, lines), lines[k].buf >>)
         ELSE RlcFilePoints(p, lines, u, k - 1)

\* the points of UE u in a list of files, file after file
RECURSIVE RlcPoints(_, _, _)
RlcPoints(p, fs, u) ==
    IF fs = << >>
    THEN << >>
    ELSE RlcPoints(p, SubSeq(fs, 1, Len(fs) - 1), u)
            \o RlcFilePoints(p, fs[Len(fs)].lines, u, Len(fs[Len(fs)].lines))

\* the files read, the one being read included
RlcFilesSoFar ==
    IF pc = "reading" THEN Append(files, [exists |-> TRUE, lines |-> input]) ELSE files

RlcUes == { "1", "2", "3", "4", "UNKNOWN" }

ListOf(d, k) == IF k \in DOMAIN d THEN d[k] ELSE << >>
AllOf(d, k) == IF k \in DOMAIN d THEN d[k].all ELSE << >>

(***************************************************************************)
(* C9.  The RNTI -> UE-id mapping is scoped to one file: the data kept for *)
(* each UE is what the buffer lines give when each is attributed by the    *)
(* mapping lines before it in its own file only, whatever the files before *)
(* it mapped.                                                              *)
(***************************************************************************)
C9_MappingFileScoped ==
    /\ prog = "rlc_multi"
         => /\ DOMAIN ue_data_all \subseteq RlcUes
            /\ \A u \in RlcUes :
                  /\ ListOf(ue_data_all, u) = RlcPoints(prog, files, u)
                  /\ pc = "reading"
                       => ListOf(ue_data, u) = RlcFilePoints(prog, input, u, Len(input))
    /\ prog = "rlc_sliced_multi"
         => /\ DOMAIN data_ue \subseteq RlcUes
            /\ \A u \in RlcUes :
                  AllOf(data_ue, u) =
                      [i \in 1..Len(RlcPoints(prog, RlcFilesSoFar, u)) |->
                          RlcPoints(prog, RlcFilesSoFar, u)[i][2]]

\* C9 witness: file 1 maps RNTI 0x10 to UE 1, file 2 has a buffer line of
\* RNTI 16 and no mapping line: the point is UNKNOWN's
C9_Witness ==
    /\ prog = "rlc_multi"
    /\ files = << [exists |-> TRUE,
                   lines |-> << RlcLine("map", << 1, 0 >>, "1", 0, "", 0) >>],
                  [exists |-> TRUE,
                   lines |-> << RlcLine("buf", << 1, 6 >>, "", 100, "", 7) >>] >>
    /\ ListOf(ue_data_all, "UNKNOWN") = << << 0, 7 >> >>
    /\ ListOf(ue_data_all, "1") = << >>

(***************************************************************************)
(* C10.  Within one file a buffer line is stored under the UE of the most  *)
(* recent mapping line of its RNTI read before it, under UNKNOWN when      *)
(* there is none; it is stored in either case, and what a file stored,     *)
(* UNKNOWN's points included, is in the collected per-UE data after the    *)
(* file.                                                                   *)
(***************************************************************************)
C10_AttributedOrUnknown ==
    [][ /\ (/\ pc = "reading"
            /\ Len(input') = Len(input) + 1
            /\ RlcIsBufferLine(prog, input'[Len(input')]))
          => LET line == input'[Len(input')]
                 u == RlcAttribution(input', Len(input'))
             IN  IF prog = "rlc_multi"
                 THEN /\ Len(ListOf(ue_data', u)) = Len(ListOf(ue_data, u)) + 1
                      /\ ListOf(ue_data', u)[Len(ListOf(ue_data', u))][2] = line.buf
                      /\ \A v \in RlcUes \ { u } : ListOf(ue_data', v) = ListOf(ue_data, v)
                 ELSE /\ AllOf(data_ue', u) = Append(AllOf(data_ue, u), line.buf)
                      /\ \A v \in RlcUes \ { u } : AllOf(data_ue', v) = AllOf(data_ue, v)
        /\ (prog = "rlc_multi" /\ pc = "reading" /\ pc' = "scan")
          => \A u \in RlcUes :
                ListOf(ue_data_all', u) = ListOf(ue_data_all, u) \o ListOf(ue_data, u)
      ]_vars

\* C10 witness: RNTI 0x10 mapped to UE 1, then to UE 2, then a buffer line
\* of RNTI 16: the point is UE 2's
C10_Witness ==
    /\ prog = "rlc_multi"
    /\ pc = "scan"
    /\ files = << [exists |-> TRUE,
                   lines |-> << RlcLine("map", << 1, 0 >>, "1", 0, "", 0),
                                RlcLine("map", << 1, 0 >>, "2", 0, "", 0),
                                RlcLine("buf", << 1, 6 >>, "", 100, "", 7) >>] >>
    /\ ListOf(ue_data_all, "2") = << << 0, 7 >> >>

(***************************************************************************)
(* The extraction rules side by side (used by claim C5).                   *)
(***************************************************************************)
RECURSIVE SumLen(_, _)
SumLen(d, keys) ==
    IF keys = {}
    THEN 0
    ELSE LET k == CHOOSE x \in keys : TRUE
         IN  Len(d[k]) + SumLen(d, keys \ { k })

RECURSIVE SumAllLen(_, _)
SumAllLen(d, keys) ==
    IF keys = {}
    THEN 0
    ELSE LET k == CHOOSE x \in keys : TRUE
         IN  Len(d[k].all) + SumAllLen(d, keys \ { k })

\* the samples the running script holds
SampleCount(p, m, t, ud, du) ==
    CASE p = "ss" -> SumLen(m, DOMAIN m)
      [] p \in { "dualq", "fifo", "fifo_multi" } -> Len(t)
      [] p = "rlc_multi" -> SumLen(ud, DOMAIN ud)
      [] p = "rlc_sliced_multi" -> SumAllLen(du, DOMAIN du)

SamplesNow == SampleCount(prog, flow_srtt_map, times, ue_data, data_ue)
SamplesNext == SampleCount(prog, flow_srtt_map', times', ue_data', data_ue')

\* The first whitespace-delimited token of the line.  A gNB log line starts
\* with a tag such as [MAC] or with the words UE RNTI, not with a number.
FirstToken(p, line) == IF p \in RlcProgs THEN WordTok ELSE line.ts

\* a line has just been read by an extraction loop
LineRead ==
    /\ pc = "reading"
    /\ pc' = "reading"
    /\ Len(input') = Len(input) + 1

\* the rest of the line is what the rule of script p looks for, and the
\* state of the extractor lets it give a sample
RestGivesSample(p, inp, i) ==
    CASE p = "ss" -> /\ SsIsRttLine(inp[i])
                     /\ last_fd # None
                     /\ ParseableAsFloat(inp[i].ts) => SsRelTime(inp, i) >= Warmup
      [] p = "dualq" -> inp[i].dc # NoFrag /\ inp[i].dl # NoFrag
      [] p = "fifo" -> inp[i].dropped # NoFrag /\ inp[i].bbytes # NoFrag
      [] p = "fifo_multi" -> /\ inp[i].dropped # NoFrag
                             /\ inp[i].bbytes # NoFrag
                             /\ ParseableAsFloat(inp[i].ts) => SsRelTime(inp, i) >= Warmup
      [] p \in RlcProgs -> RlcIsBufferLine(p, inp[i])

MaxValues == 3
\* the values a list is made of
SampleValues == { 0, 5, 10, 20, 30 }

RECURSIVE Gcd(_, _)
Gcd(a, b) == IF b = 0 THEN a ELSE Gcd(b, a % b)

\* the fraction num/den (num >= 0, den > 0) in lowest terms
Rat(num, den) ==
    LET g == Gcd(num, den) IN [num |-> num \div g, den |-> den \div g]

\* the float 0.0
Zero == Rat(0, 1)

\* the non-negative square root of a fraction
Root(q) == [root_of |-> q]

RECURSIVE Sum(_)
Sum(values) ==
    IF values = << >> THEN 0 ELSE values[1] + Sum(Tail(values))

RECURSIVE SumSq(_)
SumSq(values) ==
    IF values = << >> THEN 0 ELSE values[1] * values[1] + SumSq(Tail(values))

\* statistics.mean
mean(values) == Rat(Sum(values), Len(values))

\* mutant: the sample standard deviation (divisor count - 1)
pstdev_Sample(values) ==
    LET n == Len(values)
    IN Root(Rat(n * SumSq(values) - Sum(values) * Sum(values), n * (n - 1)))

\* statistics.pstdev: the root of the mean squared deviation from the mean,
\* sum((x - m)^2) / n = (n * sum(x^2) - sum(x)^2) / n^2
pstdev(values) ==
    LET n == Len(values)
    IN Root(Rat(n * SumSq(values) - Sum(values) * Sum(values), n * n))

\* iperf_csv.py:179-184
compute_mean_std(values) ==
    IF Len(values) = 0 THEN << Zero, Root(Zero), 0 >>
    ELSE IF Len(values) = 1 THEN << Rat(values[1], 1), Root(Zero), 1 >>
    ELSE << mean(values), pstdev(values), Len(values) >>

\* thp_plot.py:122-127  (mean, stddev) without a count
thp_mean_std(vals) ==
    IF Len(vals) = 0 THEN << Zero, Root(Zero) >>
    ELSE IF Len(vals) = 1 THEN << Rat(vals[1], 1), Root(Zero) >>
    ELSE << mean(vals), pstdev(vals) >>

\* rtt_plot.py:91-96
rtt_mean_std(vals) ==
    IF vals = << >> THEN << Zero, Root(Zero), 0 >>
    ELSE IF Len(vals) = 1 THEN << Rat(vals[1], 1), Root(Zero), 1 >>
    ELSE << mean(vals), pstdev(vals), Len(vals) >>

\* all lists of at most n values
RECURSIVE ListsUpTo(_, _)
ListsUpTo(S, n) ==
    IF n = 0 THEN { << >> }
    ELSE LET shorter == ListsUpTo(S, n - 1)
         IN shorter \cup { Append(l, x) : l \in shorter, x \in S }

MeanStdProgs == { "compute_mean_std", "thp_mean_std", "rtt_mean_std" }

\* one call of one of the three functions on a list of values
MeanStdInit ==
    /\ prog \in MeanStdProgs
    /\ pc = "call"
    /\ input \in ListsUpTo(SampleValues, MaxValues)
    /\ first_timestamp = None
    /\ times = << >>
    /\ ret = << >>
    /\ SsIdle
    /\ DualqIdle
    /\ FifoIdle
    /\ RlcIdle
    /\ MainIdle

MeanStdUnchanged ==
    UNCHANGED << prog, input, first_timestamp, ssVars, times, dualqVars,
                 fifoVars, rlcVars, mainVars >>

ComputeMeanStd ==
    /\ prog = "compute_mean_std" /\ pc = "call"
    /\ ret' = compute_mean_std(input)
    /\ pc' = "done"
    /\ MeanStdUnchanged

ThpMeanStd ==
    /\ prog = "thp_mean_std" /\ pc = "call"
    /\ ret' = thp_mean_std(input)
    /\ pc' = "done"
    /\ MeanStdUnchanged

RttMeanStd ==
    /\ prog = "rtt_mean_std" /\ pc = "call"
    /\ ret' = rtt_mean_std(input)
    /\ pc' = "done"
    /\ MeanStdUnchanged

MeanStdNext == ComputeMeanStd \/ ThpMeanStd \/ RttMeanStd

SpecMeanStd == MeanStdInit /\ [][MeanStdNext]_vars

\* sum over the list of (x * den - num)^2: den^2 times the sum of the squared
\* deviations of the values from the fraction num/den
RECURSIVE ScaledSquaredDeviations(_, _, _)
ScaledSquaredDeviations(values, num, den) ==
    IF values = << >> THEN 0
    ELSE (values[1] * den - num) * (values[1] * den - num)
         + ScaledSquaredDeviations(Tail(values), num, den)

\* m is the arithmetic mean of the values
IsArithmeticMean(m, values) ==
    m.den > 0 /\ m.num * Len(values) = Sum(values) * m.den

\* sd is the root of (sum of squared deviations from m) / count
IsPopulationStd(sd, m, values) ==
    /\ sd.root_of.den > 0
    /\ sd.root_of.num * Len(values) * m.den * m.den
           = ScaledSquaredDeviations(values, m.num, m.den) * sd.root_of.den

MaxIperfRuns == 2
\* most files of a range that are there (the others are missing)
MaxIperfFiles == 2

\* iperf_csv.py:98-103  the roles of the candidate files, in this order
CandidateFiles == << "cubic", "cubic-2", "cubic-3", "prague" >>

\* iperf_csv.py:134  "cubic" in fname
HasCubic(role) == role \in { "cubic", "cubic-2", "cubic-3" }
\* iperf_csv.py:139  "prague" in fname
HasPrague(role) == role = "prague"

\* a stream of the "end" block: the sender's socket and bits_per_second
Stream(socket, bps) == [socket |-> socket, bps |-> bps]
MbitPerS == 1000000

\* what a candidate file can be: not there, there but not JSON, or JSON
\* with a list of streams
Missing == [kind |-> "missing", streams |-> << >>]
Garbled == [kind |-> "garbled", streams |-> << >>]
Json(streams) == [kind |-> "json", streams |-> streams]

IperfContents ==
    { Missing, Garbled, Json(<< >>),
      Json(<< Stream(5, 10 * MbitPerS) >>),
      Json(<< Stream(7, 20 * MbitPerS), Stream(5, 10 * MbitPerS) >>),
      Json(<< Stream(5, 10 * MbitPerS), Stream(7, 20 * MbitPerS) >>) }

Found(idx, role, content) == [idx |-> idx, role |-> role, content |-> content]

\* the two runs of three one-flow cubic files: 10, 20, 30 and 5, 5, 5 Mbps
IperfExampleDisk ==
    << Found(1, "cubic", Json(<< Stream(5, 10 * MbitPerS) >>)),
       Found(1, "cubic-2", Json(<< Stream(5, 20 * MbitPerS) >>)),
       Found(1, "cubic-3", Json(<< Stream(5, 30 * MbitPerS) >>)),
       Found(1, "prague", Missing),
       Found(2, "cubic", Json(<< Stream(5, 5 * MbitPerS) >>)),
       Found(2, "cubic-2", Json(<< Stream(5, 5 * MbitPerS) >>)),
       Found(2, "cubic-3", Json(<< Stream(5, 5 * MbitPerS) >>)),
       Found(2, "prague", Missing) >>

\* the number of files found so far that were there
RECURSIVE PresentCount(_)
PresentCount(d) ==
    IF d = << >> THEN 0
    ELSE (IF d[1].content.kind = "missing" THEN 0 ELSE 1) + PresentCount(Tail(d))

\* what the next candidate file can be, given what was found so far
IperfFeed(d) ==
    { c \in IperfContents : c.kind = "missing" \/ PresentCount(d) < MaxIperfFiles }
    \cup { IperfExampleDisk[k].content :
             k \in { j \in 1..Len(IperfExampleDisk) :
                       j = Len(d) + 1 /\ d = SubSeq(IperfExampleDisk, 1, j - 1) } }

\* iperf_csv.py:44  mbps = bps / 1e6
Mbps(bps) == bps \div MbitPerS

\* iperf_csv.py:26-53  parse_iperf_json: the flows of a file that is there
\* (none when the file is not JSON) -- total_mbps is their sum
FlowsOf(content) ==
    IF content.kind = "garbled" THEN << >>
    ELSE [k \in 1..Len(content.streams) |->
             [socket |-> content.streams[k].socket,
              mbps |-> Mbps(content.streams[k].bps)]]

\* mutant: the first flow only
TotalMbps_First(flows) == IF flows = << >> THEN 0 ELSE flows[1].mbps

RECURSIVE TotalMbps(_)
TotalMbps(flows) ==
    IF flows = << >> THEN 0 ELSE flows[1].mbps + TotalMbps(Tail(flows))

CsvRow(idx, file, socket, mbps) ==
    [idx |-> idx, file |-> file, socket |-> socket, mbps |-> mbps]

\* iperf_csv.py:120-125, 146-151  the rows of one file: one per flow, then
\* the file-level sum
FileRows(idx, role, flows) ==
    [k \in 1..Len(flows) |->
        CsvRow(idx, role, ToString(flows[k].socket), flows[k].mbps)]
    \o << CsvRow(idx, role, "ALL_FLOWS", TotalMbps(flows)) >>

\* d[key].append(v), after d[key] = [] when the key is new
DictAppend(d, key, v) ==
    IF \E k \in 1..Len(d) : d[k].key = key
    THEN [k \in 1..Len(d) |->
            IF d[k].key = key
            THEN [key |-> key, vals |-> Append(d[k].vals, v)]
            ELSE d[k]]
    ELSE Append(d, [key |-> key, vals |-> << v >>])

\* iperf_csv.py:136-138, 141-143  for every flow of the file
RECURSIVE UeAcrossRunsAfter(_, _)
UeAcrossRunsAfter(d, flows) ==
    IF flows = << >> THEN d
    ELSE UeAcrossRunsAfter(DictAppend(d, flows[1].socket, flows[1].mbps),
                            Tail(flows))

\* iperf_csv.py:187-195, 208-216  one summary row per entry of the dict
UeRows(type, d) ==
    [k \in 1..Len(d) |->
        LET r == compute_mean_std(d[k].vals)
        IN [type |-> type, ue |-> ToString(d[k].key),
            mean_mbps |-> r[1], std_mbps |-> r[2], count |-> r[3]]]

\* iperf_csv.py:198-205, 219-226  the row of the per-run sums
AllRow(type, sum_vals) ==
    LET r == compute_mean_std(sum_vals)
    IN [type |-> type, ue |-> "ALL",
        mean_mbps |-> r[1], std_mbps |-> r[2], count |-> r[3]]

\* iperf_csv.py:172-173  the per-run sums of the range, by ascending index
SumVals(per_run, first, last) ==
    [k \in 1..(last - first + 1) |-> per_run[first + k - 1]]

IperfInit ==
    /\ prog = "iperf_csv"
    /\ pc = "scan"
    /\ start_idx = 1
    /\ end_idx \in 0..MaxIperfRuns
    /\ cur_idx = 1
    /\ fpos = 1
    /\ disk = << >>
    /\ csv_rows = << >>
    /\ IperfIdle
    /\ input = << >>
    /\ first_timestamp = None
    /\ times = << >>
    /\ ret = << >>
    /\ cubic_srtt_list = << >>
    /\ SsIdle /\ DualqIdle /\ FifoIdle /\ RlcIdle
    /\ FifoDelayIdle /\ CmdIdle /\ ExpIdle

IperfUnchanged ==
    UNCHANGED << prog, input, first_timestamp, ssVars, times, dualqVars,
                 fifoVars, ret, rlcVars, start_idx, end_idx, cubic_srtt_list,
                 link_speed_bps, all_delays, exit_code, stdout, expVars >>

\* iperf_csv.py:109-151  one pass of the loop over the candidate files
IperfFile ==
    /\ prog = "iperf_csv" /\ pc = "scan"
    /\ cur_idx <= end_idx /\ fpos <= Len(CandidateFiles)
    /\ \E content \in IperfFeed(disk) :
          LET role == CandidateFiles[fpos]
              flows == FlowsOf(content)
          IN /\ disk' = Append(disk, Found(cur_idx, role, content))
             /\ IF content.kind = "missing"
                THEN UNCHANGED << csv_rows, cubic_ue_across_runs,
                                  prague_ue_across_runs, cubic_sum_run,
                                  prague_sum_run >>
                ELSE /\ csv_rows' = csv_rows \o FileRows(cur_idx, role, flows)
                     /\ IF HasCubic(role)
                        THEN /\ cubic_sum_run' = cubic_sum_run + TotalMbps(flows)
                             /\ cubic_ue_across_runs' =
                                    UeAcrossRunsAfter(cubic_ue_across_runs, flows)
                             /\ UNCHANGED << prague_sum_run, prague_ue_across_runs >>
                        ELSE IF HasPrague(role)
                        THEN /\ prague_sum_run' = prague_sum_run + TotalMbps(flows)
                             /\ prague_ue_across_runs' =
                                    UeAcrossRunsAfter(prague_ue_across_runs, flows)
                             /\ UNCHANGED << cubic_sum_run, cubic_ue_across_runs >>
                        ELSE UNCHANGED << cubic_ue_across_runs,
                                          prague_ue_across_runs, cubic_sum_run,
                                          prague_sum_run >>
    /\ fpos' = fpos + 1
    /\ UNCHANGED << pc, cur_idx, cubic_sum_per_run, prague_sum_per_run,
                    multi_ue_rows, written >>
    /\ IperfUnchanged

\* iperf_csv.py:153-155, then 96-107 for the next index
IperfEndRun ==
    /\ prog = "iperf_csv" /\ pc = "scan"
    /\ cur_idx <= end_idx /\ fpos > Len(CandidateFiles)
    /\ cubic_sum_per_run' = (cur_idx :> cubic_sum_run) @@ cubic_sum_per_run
    /\ prague_sum_per_run' = (cur_idx :> prague_sum_run) @@ prague_sum_per_run
    /\ cur_idx' = cur_idx + 1
    /\ fpos' = 1
    /\ cubic_sum_run' = 0
    /\ prague_sum_run' = 0
    /\ UNCHANGED << pc, disk, csv_rows, cubic_ue_across_runs,
                    prague_ue_across_runs, multi_ue_rows, written >>
    /\ IperfUnchanged

\* iperf_csv.py:157-236  the two CSV files
IperfSummary ==
    /\ prog = "iperf_csv" /\ pc = "scan"
    /\ cur_idx > end_idx
    /\ multi_ue_rows' =
           UeRows("cubic", cubic_ue_across_runs)
           \o << AllRow("cubic", SumVals(cubic_sum_per_run, start_idx, end_idx)) >>
           \o UeRows("prague", prague_ue_across_runs)
           \o << AllRow("prague", SumVals(prague_sum_per_run, start_idx, end_idx)) >>
    /\ written' = << "iperf_results.csv", "iperf_results_multi_ue.csv" >>
    /\ pc' = "done"
    /\ UNCHANGED << cur_idx, fpos, disk, csv_rows, cubic_ue_across_runs,
                    prague_ue_across_runs, cubic_sum_run, prague_sum_run,
                    cubic_sum_per_run, prague_sum_per_run >>
    /\ IperfUnchanged

IperfNext == IperfFile \/ IperfEndRun \/ IperfSummary

(***************************************************************************)
(* thp_plot.py: main, run on the detail CSV that iperf_csv has written     *)
(* under the same prefix.  DictWriter writes an idx and an mbps as text    *)
(* and int() and float() read the same numbers back; a socket stays text.  *)
(***************************************************************************)
\* thp_plot.py:9-30
file_to_ue_type(file) ==
    IF file = "prague" THEN "prague"
    ELSE IF file = "cubic-2" THEN "cubic2"
    ELSE IF file = "cubic-3" THEN "cubic3"
    ELSE IF file = "cubic" THEN "cubic1"
    ELSE "unknown"

\* thp_plot.py:60-67  (idx, ue_type, socket, mbps) of every row
ThpData(rows) ==
    [k \in 1..Len(rows) |->
        << rows[k].idx, file_to_ue_type(rows[k].file), rows[k].socket,
           rows[k].mbps >>]

\* d.setdefault(key, 0); d[key] += v
DictAdd(d, key, v) ==
    IF \E k \in 1..Len(d) : d[k].key = key
    THEN [k \in 1..Len(d) |->
            IF d[k].key = key
            THEN [key |-> key, vals |-> d[k].vals + v]
            ELSE d[k]]
    ELSE Append(d, [key |-> key, vals |-> v])

\* thp_plot.py:94-101  ue_allflows[ue_type]: idx -> sum of the file-level rows
RECURSIVE UeAllFlows(_, _)
UeAllFlows(data, ue_type) ==
    IF data = << >> THEN << >>
    ELSE LET before == UeAllFlows(SubSeq(data, 1, Len(data) - 1), ue_type)
             x == data[Len(data)]
         IN IF x[3] = "ALL_FLOWS" /\ x[2] = ue_type
            THEN DictAdd(before, x[1], x[4])
            ELSE before

DictValues(d) == [k \in 1..Len(d) |-> d[k].vals]
DictKeys(d) == { d[k].key : k \in 1..Len(d) }
DictGet(d, key, default) ==
    IF key \in DictKeys(d)
    THEN d[CHOOSE k \in 1..Len(d) : d[k].key = key].vals
    ELSE default

\* sorted(a set of numbers)
RECURSIVE Sorted(_)
Sorted(S) ==
    IF S = { } THEN << >>
    ELSE LET m == CHOOSE x \in S : \A y \in S : x <= y
         IN << m >> \o Sorted(S \ { m })

\* thp_plot.py:111-119  c1 + c2 + c3 for every idx that has a cubic row
CubicCombo(c1, c2, c3) ==
    LET all_idxs == Sorted(DictKeys(c1) \cup DictKeys(c2) \cup DictKeys(c3))
    IN [k \in 1..Len(all_idxs) |->
           DictGet(c1, all_idxs[k], 0) + DictGet(c2, all_idxs[k], 0)
           + DictGet(c3, all_idxs[k], 0)]

\* thp_plot.py:104-143  the five bars of plot #1
UeBars(data) ==
    LET c1 == UeAllFlows(data, "cubic1")
        c2 == UeAllFlows(data, "cubic2")
        c3 == UeAllFlows(data, "cubic3")
        Bar(label, vals) ==
            [label |-> label, mu |-> thp_mean_std(vals)[1],
             sd |-> thp_mean_std(vals)[2]]
    IN << Bar("prague", DictValues(UeAllFlows(data, "prague"))),
          Bar("cubic (combo)", CubicCombo(c1, c2, c3)),
          Bar("cubic1", DictValues(c1)),
          Bar("cubic2", DictValues(c2)),
          Bar("cubic3", DictValues(c3)) >>

\* thp_plot.py:180-184  the flow rows, and flow_dict before the combined keys
FlowEntries(data) == SelectSeq(data, LAMBDA x : x[3] # "ALL_FLOWS")

RECURSIVE FlowDict(_)
FlowDict(entries) ==
    IF entries = << >> THEN << >>
    ELSE LET x == entries[Len(entries)]
         IN DictAppend(FlowDict(SubSeq(entries, 1, Len(entries) - 1)),
                       << x[2], x[3] >>, x[4])

\* thp_plot.py:192-201  (idx, socket) -> c1 + c2 + c3 of the cubic flow rows
RECURSIVE ComboMap(_)
ComboMap(entries) ==
    IF entries = << >> THEN << >>
    ELSE LET x == entries[Len(entries)]
             before == ComboMap(SubSeq(entries, 1, Len(entries) - 1))
         IN IF x[2] \in { "cubic1", "cubic2", "cubic3" }
            THEN DictAdd(before, << x[1], x[3] >>, x[4])
            ELSE before

\* thp_plot.py:204-207  the combined values join flow_dict
RECURSIVE WithCombined(_, _)
WithCombined(flow_dict, combo) ==
    IF combo = << >> THEN flow_dict
    ELSE WithCombined(DictAppend(flow_dict,
                                 << "cubic-combined", combo[1].key[2] >>,
                                 combo[1].vals),
                      Tail(combo))

\* int(text): the number a decimal text is of, "ValueError" for other text
SocketNumbers == 0..9
IntOf(text) ==
    IF \E n \in SocketNumbers : ToString(n) = text
    THEN CHOOSE n \in SocketNumbers : ToString(n) = text
    ELSE "ValueError"

\* thp_plot.py:220-234
flow_sort_key(item) ==
    << CASE item[1] = "prague" -> 1
         [] item[1] = "cubic1" -> 2
         [] item[1] = "cubic2" -> 3
         [] item[1] = "cubic3" -> 4
         [] item[1] = "cubic-combined" -> 5
         [] OTHER -> 999,
       IF \E n \in SocketNumbers : ToString(n) = item[2]
       THEN IntOf(item[2]) ELSE 9999 >>

\* the order of two sort keys (pairs of numbers)
KeyLeq(a, b) == a[1] < b[1] \/ (a[1] = b[1] /\ a[2] <= b[2])

\* list.sort(key=flow_sort_key): stable, equal keys keep their order
RECURSIVE SortedByFlowKey(_)
SortedByFlowKey(items) ==
    IF items = << >> THEN << >>
    ELSE LET x == items[Len(items)]
             before == SortedByFlowKey(SubSeq(items, 1, Len(items) - 1))
             n == Cardinality({ k \in 1..Len(before) :
                                  KeyLeq(flow_sort_key(before[k]), flow_sort_key(x)) })
         IN SubSeq(before, 1, n) \o << x >> \o SubSeq(before, n + 1, Len(before))

\* thp_plot.py:177-236  the sorted (ue_type, socket, mean, stddev) of plot #2
FlowSummaries(data) ==
    LET entries == FlowEntries(data)
        flow_dict == WithCombined(FlowDict(entries), ComboMap(entries))
    IN SortedByFlowKey(
           [k \in 1..Len(flow_dict) |->
               << flow_dict[k].key[1], flow_dict[k].key[2],
                  thp_mean_std(flow_dict[k].vals)[1],
                  thp_mean_std(flow_dict[k].vals)[2] >>])

\* thp_plot.py:32-264  the whole of main, once iperf_csv has written its CSV
ThpMain ==
    /\ prog = "iperf_csv" /\ pc = "done"
    /\ prog' = "thp_plot"
    /\ ret' = [bars |-> UeBars(ThpData(csv_rows)),
               flow_summaries |-> FlowSummaries(ThpData(csv_rows))]
    /\ written' = written \o << "thp_plot_ue_level.pdf", "thp_plot_flow_level.pdf" >>
    /\ UNCHANGED << pc, input, first_timestamp, ssVars, times, dualqVars,
                    fifoVars, rlcVars, rangeVars, csv_rows, iperfVars,
                    cubic_srtt_list, link_speed_bps, all_delays, exit_code,
                    stdout, expVars >>

\* iperf_csv over a range of runs, then thp_plot on what it wrote
ThroughputNext == IperfNext \/ ThpMain

SpecThroughput == IperfInit /\ [][ThroughputNext]_vars

(***************************************************************************)
(* What the files found on disk say (used by the claims on iperf_csv).     *)
(***************************************************************************)
\* the throughputs, in Mbps, of all the flows of the files of run idx whose
\* role is in roles, in the order the scan met them
RECURSIVE RunValues(_, _, _)
RunValues(d, idx, roles) ==
    IF d = << >> THEN << >>
    ELSE (IF d[1].idx = idx /\ d[1].role \in roles /\ d[1].content.kind = "json"
          THEN [k \in 1..Len(d[1].content.streams) |->
                   d[1].content.streams[k].bps \div MbitPerS]
          ELSE << >>)
         \o RunValues(Tail(d), idx, roles)

CubicRoles == { "cubic", "cubic-2", "cubic-3" }

\* the sum of the cubic flows of run idx
RunCubicSum(d, idx) == Sum(RunValues(d, idx, CubicRoles))

\* the per-run cubic sums of the runs first..last
CubicSums(d, first, last) ==
    [k \in 1..(last - first + 1) |-> RunCubicSum(d, first + k - 1)]

\* the summary row of a type and a ue label
SummaryRow(type, ue) ==
    multi_ue_rows[CHOOSE k \in 1..Len(multi_ue_rows) :
                     multi_ue_rows[k].type = type /\ multi_ue_rows[k].ue = ue]

\* the runs of first..last that have a cubic file on disk, ascending
RunsWithCubicFile(d, first, last) ==
    Sorted({ idx \in first..last :
               \E k \in 1..Len(d) : /\ d[k].idx = idx
                                    /\ d[k].role \in CubicRoles
                                    /\ d[k].content.kind # "missing" })

\* C12: the combined cubic throughput is a two-level reduction: while the
\* files are scanned the running sum holds the cubic flows of the current
\* run only and every finished run's sum is the sum of that run's own cubic
\* flows; the cubic ALL row of iperf_csv and the "cubic (combo)" bar of
\* thp_plot are the mean and the population stddev of such per-run sums.
\* For run 1 = {10, 20, 30} and run 2 = {5, 5, 5} the sums are 60 and 15,
\* the mean 37.5 (75/2) and the stddev 22.5 (the root of 2025/4).
C12_TwoLevelReduction ==
    prog \in { "iperf_csv", "thp_plot" } =>
        /\ pc = "scan" /\ cur_idx <= end_idx =>
               cubic_sum_run = RunCubicSum(disk, cur_idx)
        /\ \A idx \in DOMAIN cubic_sum_per_run :
               cubic_sum_per_run[idx] = RunCubicSum(disk, idx)
        /\ pc = "done" =>
               LET sums == CubicSums(disk, start_idx, end_idx)
                   row == SummaryRow("cubic", "ALL")
               IN /\ IsArithmeticMean(row.mean_mbps, sums)
                  /\ IsPopulationStd(row.std_mbps, row.mean_mbps, sums)
                  /\ disk = IperfExampleDisk =>
                         /\ sums = << 60, 15 >>
                         /\ row.mean_mbps = [num |-> 75, den |-> 2]
                         /\ row.std_mbps = [root_of |-> [num |-> 2025, den |-> 4]]
        /\ prog = "thp_plot" =>
               LET runs == RunsWithCubicFile(disk, start_idx, end_idx)
                   sums == [k \in 1..Len(runs) |-> RunCubicSum(disk, runs[k])]
                   bar == ret.bars[2]
               IN /\ bar.label = "cubic (combo)"
                  /\ IsArithmeticMean(bar.mu, sums)
                  /\ IsPopulationStd(bar.sd, bar.mu, sums)
                  /\ disk = IperfExampleDisk =>
                         /\ bar.mu = [num |-> 75, den |-> 2]
                         /\ bar.sd = [root_of |-> [num |-> 2025, den |-> 4]]

\* the two example runs have been summarised by both scripts
C12_Witness ==
    /\ prog = "thp_plot" /\ pc = "done"
    /\ disk = IperfExampleDisk
    /\ cubic_sum_per_run = (1 :> 60) @@ (2 :> 15)
    /\ SummaryRow("cubic", "ALL").mean_mbps = [num |-> 75, den |-> 2]
    /\ ret.bars[2].mu = [num |-> 75, den |-> 2]

\* C13: a run whose cubic (resp. prague) files are all missing adds no value
\* to the combined ALL group of that type: the count of the ALL row is the
\* number of runs of the range that had at least one such file, and its
\* mean is the mean of the sums of those runs only.
C13_MissingRunAddsNoValue ==
    (prog = "iperf_csv" /\ pc = "done") =>
        LET runs == RunsWithCubicFile(disk, start_idx, end_idx)
            sums == [k \in 1..Len(runs) |-> RunCubicSum(disk, runs[k])]
            row == SummaryRow("cubic", "ALL")
        IN /\ row.count = Len(runs)
           /\ IsArithmeticMean(row.mean_mbps, sums)

\* C14: a file that is there but yields no flow is a gap like a missing
\* file: the detail rows hold no row of that run and file.
C14_EmptyFileIsGap ==
    prog = "iperf_csv" =>
        \A k \in 1..Len(disk) :
            disk[k].content.streams = << >> =>
                ~ \E j \in 1..Len(csv_rows) :
                      /\ csv_rows[j].idx = disk[k].idx
                      /\ csv_rows[j].file = disk[k].role

\* C16: the summary rows of iperf_csv and the per-flow entries of thp_plot
\* come in one fixed order whatever order the groups were met in: within a
\* type, by ascending numeric id.
C16_FixedOutputOrder ==
    /\ (prog = "iperf_csv" /\ pc = "done") =>
           \A j, k \in 1..Len(multi_ue_rows) :
               ( /\ j < k
                 /\ multi_ue_rows[j].type = multi_ue_rows[k].type
                 /\ multi_ue_rows[j].ue # "ALL"
                 /\ multi_ue_rows[k].ue # "ALL" )
               => IntOf(multi_ue_rows[j].ue) < IntOf(multi_ue_rows[k].ue)
    /\ prog = "thp_plot" =>
           \A j, k \in 1..Len(ret.flow_summaries) :
               ( j < k /\ ret.flow_summaries[j][1] = ret.flow_summaries[k][1] )
               => IntOf(ret.flow_summaries[j][2]) < IntOf(ret.flow_summaries[k][2])

(***************************************************************************)
(* fifo_plot_multi.py: compute_mean_queue_delay and main.                  *)
(*                                                                         *)
(* A file that is there is given by what parse_fifo_file returns for it,   *)
(* the backlog in bytes of every sample (the four lists are aligned).  A   *)
(* delay is a whole number of milliseconds.                                *)
(***************************************************************************)
\* most run indices in a range of fifo monitor files
MaxFifoRuns == 3
\* fifo_plot_multi.py:105  delays above 0.1 s are left out
MaxDelayMs == 100
MsPerS == 1000

\* the backlog lists a fifo monitor file can give
FifoMonitorContents ==
    { Missing } \cup
    { [kind |-> "parsed", streams |-> b] :
        b \in { << >>, << 6250 >>, << 6250, 12500 >>, << 631250 >>,
                << 625000, 0 >> } }

\* fifo_plot_multi.py:104  delay_sec = (b_bytes * 8.0) / link_speed_bps,
\* in milliseconds: the bits over the bits per millisecond
DelayMs(b_bytes, speed_bps) == (b_bytes * 8) \div (speed_bps \div MsPerS)

\* mutant: every delay is kept
KeepsDelay_All(delay_ms) == TRUE

\* fifo_plot_multi.py:105-106
KeepsDelay(delay_ms) == ~(delay_ms > MaxDelayMs)

\* fifo_plot_multi.py:103-107  the delays of one file that join the pool
FileDelays(backlog_bytes, speed_bps) ==
    SelectSeq([k \in 1..Len(backlog_bytes) |-> DelayMs(backlog_bytes[k], speed_bps)],
              KeepsDelay)

\* a value a Python function returns: a float or a tuple
PyFloat(x) == [type |-> "float", val |-> << x >>]
PyTuple(t) == [type |-> "tuple", val |-> t]

\* fifo_plot_multi.py:109-112  (np.std is the population standard deviation)
MeanQueueDelay(delays) ==
    IF delays = << >> THEN PyFloat(Zero)
    ELSE PyTuple(<< mean(delays), pstdev(delays) >>)

FifoDelayInit ==
    /\ prog = "fifo_plot_multi"
    /\ pc = "scan"
    /\ start_idx = 1
    /\ end_idx \in 0..MaxFifoRuns
    /\ cur_idx = 1
    /\ fpos = 0
    /\ disk = << >>
    /\ link_speed_bps \in { 50 * MbitPerS, 25 * MbitPerS }
    /\ all_delays = << >>
    /\ csv_rows = << >>
    /\ cubic_srtt_list = << >>
    /\ input = << >>
    /\ first_timestamp = None
    /\ times = << >>
    /\ ret = << >>
    /\ SsIdle /\ DualqIdle /\ FifoIdle /\ RlcIdle
    /\ IperfIdle /\ CmdIdle /\ ExpIdle

FifoDelayUnchanged ==
    UNCHANGED << prog, input, first_timestamp, ssVars, times, dualqVars,
                 fifoVars, rlcVars, start_idx, end_idx, fpos, csv_rows,
                 iperfVars, cubic_srtt_list, link_speed_bps, written, expVars >>

\* fifo_plot_multi.py:90-107  one pass of the loop over the indices
FifoDelayFile ==
    /\ prog = "fifo_plot_multi" /\ pc = "scan"
    /\ cur_idx <= end_idx
    /\ \E content \in FifoMonitorContents :
          /\ disk' = Append(disk, Found(cur_idx, "fifo_monitor", content))
          /\ IF content.kind = "missing"
             THEN /\ stdout' = Append(stdout, "Warning: File not found")
                  /\ UNCHANGED all_delays
             ELSE IF content.streams = << >>
             THEN /\ stdout' = Append(stdout, "Warning: No valid data")
                  /\ UNCHANGED all_delays
             ELSE /\ all_delays' =
                        all_delays \o FileDelays(content.streams, link_speed_bps)
                  /\ UNCHANGED stdout
    /\ cur_idx' = cur_idx + 1
    /\ UNCHANGED << pc, ret, exit_code >>
    /\ FifoDelayUnchanged

\* fifo_plot_multi.py:109-112  compute_mean_queue_delay returns
FifoDelayReturn ==
    /\ prog = "fifo_plot_multi" /\ pc = "scan"
    /\ cur_idx > end_idx
    /\ ret' = MeanQueueDelay(all_delays)
    /\ pc' = "returned"
    /\ UNCHANGED << cur_idx, disk, all_delays, stdout, exit_code >>
    /\ FifoDelayUnchanged

\* fifo_plot_multi.py:128-130  mean_delay, std_delay = <what was returned>;
\* unpacking a float raises TypeError and the command ends with status 1
FifoDelayReport ==
    /\ prog = "fifo_plot_multi" /\ pc = "returned"
    /\ IF ret.type = "tuple" /\ Len(ret.val) = 2
       THEN /\ stdout' = Append(stdout, "Mean Queue Delay")
            /\ exit_code' = 0
       ELSE /\ stdout' = Append(stdout, "TypeError")
            /\ exit_code' = 1
    /\ pc' = "done"
    /\ UNCHANGED << cur_idx, disk, all_delays, ret >>
    /\ FifoDelayUnchanged

FifoDelayNext == FifoDelayFile \/ FifoDelayReturn \/ FifoDelayReport

SpecFifoDelay == FifoDelayInit /\ [][FifoDelayNext]_vars

\* C15: for every range, one whose files are all missing or without samples
\* included, the command ends without error and reports mean 0.0 and stddev
\* 0.0 for the empty pool.
C15_EmptyPoolReportsZero ==
    (prog = "fifo_plot_multi" /\ pc = "done") =>
        /\ exit_code = 0
        /\ stdout[Len(stdout)] = "Mean Queue Delay"
        /\ all_delays = << >> =>
               /\ ret.type = "tuple"
               /\ ret.val = << [num |-> 0, den |-> 1],
                               [root_of |-> [num |-> 0, den |-> 1]] >>

(***************************************************************************)
(* The single-index commands: dualq_plot.py, fifo_plot.py, rlc_no_slice.py *)
(* and rlc_sliced.py, from their command line to their exit status.        *)
(***************************************************************************)
\* largest experiment index given on the command line
MaxExpIdx == 8

CmdProgs == { "dualq_plot", "fifo_plot", "rlc_no_slice", "rlc_sliced" }

\* the command line after the script name: nothing, a word, or an index
CmdArgs ==
    { [kind |-> "none", val |-> 0], [kind |-> "word", val |-> 0] }
    \cup { [kind |-> "int", val |-> n] : n \in 1..MaxExpIdx }

\* the one input file: not there, there without a usable line, or with data
CmdFiles == { Missing, [kind |-> "empty", streams |-> << >>],
              [kind |-> "data", streams |-> << >>] }

Outcome(msg, code, outputs) == [msg |-> msg, code |-> code, files |-> outputs]

\* the except FileNotFoundError branch of each command:
\* dualq_plot.py:59-61 and fifo_plot.py:90-92 sys.exit(1); rlc_no_slice.py:
\* 73-75 and rlc_sliced.py:72-74 print and return, and the script ends
\* normally
MissingFileOutcome(p) ==
    IF p \in { "dualq_plot", "fifo_plot" }
    THEN Outcome("not found", 1, << >>)
    ELSE Outcome("not found", 0, << >>)

\* dualq_plot.py:87-90, fifo_plot.py:94-96 sys.exit(0); rlc_no_slice.py:
\* 77-79, rlc_sliced.py:76-78 return
NoDataOutcome(p) == Outcome("no data", 0, << >>)

\* dualq_plot.py:116-117, fifo_plot.py:147-148, rlc_no_slice.py:102-103,
\* rlc_sliced.py:97-98  the plot is saved
PlotOutcome(p) ==
    Outcome("plot saved", 0,
            << CASE p = "dualq_plot" -> "dualq_monitor_delays_only.png"
                 [] p = "fifo_plot" -> "fifo_monitor_singleplot.png"
                 [] p = "rlc_no_slice" -> "gnb_log_buffer_size.png"
                 [] p = "rlc_sliced" -> "gnb_log_slice_buffer_size.png" >>)

CmdInit ==
    /\ prog \in CmdProgs
    /\ pc = "start"
    /\ input \in { << a >> : a \in CmdArgs }
    /\ first_timestamp = None
    /\ times = << >>
    /\ ret = << >>
    /\ SsIdle /\ DualqIdle /\ FifoIdle /\ RlcIdle
    /\ MainIdle

\* one whole run of the command p
CmdRun(p) ==
    /\ prog = p /\ pc = "start"
    /\ \E content \in CmdFiles :
          LET arg == input[1]
              out == IF arg.kind = "none" THEN Outcome("usage", 1, << >>)
                     ELSE IF arg.kind = "word"
                     THEN Outcome("must be an integer", 1, << >>)
                     ELSE IF content.kind = "missing" THEN MissingFileOutcome(p)
                     ELSE IF content.kind = "empty" THEN NoDataOutcome(p)
                     ELSE PlotOutcome(p)
          IN /\ disk' = IF arg.kind = "int"
                        THEN << Found(arg.val, "input", content) >>
                        ELSE disk
             /\ stdout' = << out.msg >>
             /\ exit_code' = out.code
             /\ written' = out.files
    /\ pc' = "done"
    /\ UNCHANGED << prog, input, first_timestamp, ssVars, times, dualqVars,
                    fifoVars, ret, rlcVars, start_idx, end_idx, cur_idx, fpos,
                    csv_rows, iperfVars, cubic_srtt_list, link_speed_bps,
                    all_delays, expVars >>

\* dualq_plot.py:72-134
DualqPlotMain == CmdRun("dualq_plot")
\* fifo_plot.py:68-178
FifoPlotMain == CmdRun("fifo_plot")
\* rlc_no_slice.py:8-144
RlcNoSliceMain == CmdRun("rlc_no_slice")
\* rlc_sliced.py:8-162
RlcSlicedMain == CmdRun("rlc_sliced")

CmdNext == DualqPlotMain \/ FifoPlotMain \/ RlcNoSliceMain \/ RlcSlicedMain

SpecCmd == CmdInit /\ [][CmdNext]_vars

\* the command was given an index and its input file was not there
CmdFileWasMissing ==
    /\ prog \in CmdProgs /\ pc = "done"
    /\ disk # << >> /\ disk[1].content.kind = "missing"

\* C17: when the one input file of a single-index command is absent, the
\* command prints a diagnostic, ends with a non-zero exit status and writes
\* no output file.
C17_MissingInputFails ==
    CmdFileWasMissing =>
        /\ stdout # << >>
        /\ exit_code # 0
        /\ written = << >>

(***************************************************************************)
(* experiment.py: run_experiment with its two flow threads.                *)
(*                                                                         *)
(* pc is the position of the main thread in the body of the loop (0 once   *)
(* an exception has ended the program); `trace` lists, run by run, the     *)
(* remote commands in the order they were issued, and the end of each      *)
(* flow script.                                                            *)
(***************************************************************************)
\* most iterations of run_experiment
MaxIterations == 2
\* experiment.py:163  run_experiment(5, 47)
BeginIdx == 47

Step(ev, kind, warn) == [ev |-> ev, kind |-> kind, warn |-> warn]

\* mutant: the flow threads are started before the logging and the monitors
ExpSteps_FlowsFirst ==
    << Step("kill iperf3", "cmd", TRUE),
       Step("start iperf3 servers", "cmd", FALSE),
       Step("rm results", "cmd", FALSE),
       Step("chmod scripts", "cmd", FALSE),
       Step("thread1.start", "start1", FALSE),
       Step("thread2.start", "start2", FALSE),
       Step("start gnb log", "cmd", FALSE),
       Step("start dualq monitor", "cmd", FALSE),
       Step("start fifo monitor", "cmd", FALSE),
       Step("thread1.join", "join1", FALSE),
       Step("thread2.join", "join2", FALSE),
       Step("stop gnb log", "cmd", TRUE),
       Step("get prague results", "cmd", FALSE),
       Step("get classic results", "cmd", FALSE),
       Step("get monitor logs", "cmd", FALSE),
       Step("get gnb log", "cmd", FALSE) >>

\* experiment.py:76-157  the body of the loop, statement by statement; warn
\* is warn=True, a command whose failure does not raise
ExpSteps ==
    << Step("kill iperf3", "cmd", TRUE),               \* 77-84
       Step("start iperf3 servers", "cmd", FALSE),     \* 87-94
       Step("rm results", "cmd", FALSE),               \* 97-98
       Step("chmod scripts", "cmd", FALSE),            \* 100-101
       Step("start gnb log", "cmd", FALSE),            \* 104-105
       Step("start dualq monitor", "cmd", FALSE),      \* 110
       Step("start fifo monitor", "cmd", FALSE),       \* 111
       Step("thread1.start", "start1", FALSE),         \* 113, 117
       Step("thread2.start", "start2", FALSE),         \* 114, 118
       Step("thread1.join", "join1", FALSE),           \* 121
       Step("thread2.join", "join2", FALSE),           \* 122
       Step("stop gnb log", "cmd", TRUE),              \* 127
       Step("get prague results", "cmd", FALSE),       \* 131-134
       Step("get classic results", "cmd", FALSE),      \* 138-146
       Step("get monitor logs", "cmd", FALSE),         \* 151-152
       Step("get gnb log", "cmd", FALSE) >>            \* 156-157

Event(run, ev) == [run |-> run, ev |-> ev]

\* mutant: join returns at once
Joined_NoWait(thread) == TRUE

\* Thread.join returns when the thread's function has returned or raised
Joined(thread) == thread = "finished"

\* experiment.py:72-73  run_experiment(iterations, begin_idx)
ExpInit ==
    /\ prog = "experiment"
    /\ pc = 1
    /\ start_idx = BeginIdx
    /\ end_idx \in (BeginIdx - 1)..(BeginIdx + MaxIterations - 1)
    /\ cur_idx = BeginIdx
    /\ thread1 = "none"
    /\ thread2 = "none"
    /\ trace = << >>
    /\ fpos = 0
    /\ disk = << >>
    /\ csv_rows = << >>
    /\ cubic_srtt_list = << >>
    /\ input = << >>
    /\ first_timestamp = None
    /\ times = << >>
    /\ ret = << >>
    /\ SsIdle /\ DualqIdle /\ FifoIdle /\ RlcIdle
    /\ IperfIdle /\ FifoDelayIdle /\ CmdIdle

ExpUnchanged ==
    UNCHANGED << prog, input, first_timestamp, ssVars, times, dualqVars,
                 fifoVars, ret, rlcVars, start_idx, end_idx, fpos, disk,
                 csv_rows, iperfVars, cubic_srtt_list, link_speed_bps,
                 all_delays, cmdVars >>

\* the main thread is at a statement of the loop body of run cur_idx
ExpAt(kind) ==
    /\ prog = "experiment" /\ pc \in 1..Len(ExpSteps)
    /\ cur_idx <= end_idx
    /\ ExpSteps[pc].kind = kind

\* a remote command of the main thread returns
ExpCommand ==
    /\ ExpAt("cmd")
    /\ trace' = Append(trace, Event(cur_idx, ExpSteps[pc].ev))
    /\ pc' = pc + 1
    /\ UNCHANGED << cur_idx, thread1, thread2 >>
    /\ ExpUnchanged

\* a remote command without warn=True fails: the exception ends the program
ExpCommandFails ==
    /\ ExpAt("cmd") /\ ~ExpSteps[pc].warn
    /\ pc' = 0
    /\ UNCHANGED << cur_idx, thread1, thread2, trace >>
    /\ ExpUnchanged

\* experiment.py:113, 117
ExpStartThread1 ==
    /\ ExpAt("start1")
    /\ thread1' = "started"
    /\ pc' = pc + 1
    /\ UNCHANGED << cur_idx, thread2, trace >>
    /\ ExpUnchanged

\* experiment.py:114, 118
ExpStartThread2 ==
    /\ ExpAt("start2")
    /\ thread2' = "started"
    /\ pc' = pc + 1
    /\ UNCHANGED << cur_idx, thread1, trace >>
    /\ ExpUnchanged

\* experiment.py:121
ExpJoin1 ==
    /\ ExpAt("join1") /\ Joined(thread1)
    /\ pc' = pc + 1
    /\ UNCHANGED << cur_idx, thread1, thread2, trace >>
    /\ ExpUnchanged

\* experiment.py:122
ExpJoin2 ==
    /\ ExpAt("join2") /\ Joined(thread2)
    /\ pc' = pc + 1
    /\ UNCHANGED << cur_idx, thread1, thread2, trace >>
    /\ ExpUnchanged

\* a loop that steps over every second index
ExpNextRun_SkipOne ==
    /\ prog = "experiment" /\ cur_idx <= end_idx
    /\ pc = Len(ExpSteps) + 1
    /\ cur_idx' = cur_idx + 2
    /\ pc' = 1
    /\ UNCHANGED << thread1, thread2, trace >>
    /\ ExpUnchanged

\* experiment.py:160, 73  the next index, or the end of the loop
ExpNextRun ==
    /\ prog = "experiment" /\ cur_idx <= end_idx
    /\ pc = Len(ExpSteps) + 1
    /\ cur_idx' = cur_idx + 1
    /\ pc' = 1
    /\ UNCHANGED << thread1, thread2, trace >>
    /\ ExpUnchanged

\* experiment.py:64-65  the thread issues ./exp_prague.sh
RunPrague ==
    /\ prog = "experiment" /\ thread1 = "started"
    /\ thread1' = "running"
    /\ trace' = Append(trace, Event(cur_idx, "exp_prague.sh"))
    /\ UNCHANGED << pc, cur_idx, thread2 >>
    /\ ExpUnchanged

\* experiment.py:65-66  the script has ended (or the command has raised)
PragueCompleted ==
    /\ prog = "experiment" /\ thread1 = "running"
    /\ thread1' = "finished"
    /\ trace' = Append(trace, Event(cur_idx, "exp_prague.sh ended"))
    /\ UNCHANGED << pc, cur_idx, thread2 >>
    /\ ExpUnchanged

\* experiment.py:68-69
RunClassic ==
    /\ prog = "experiment" /\ thread2 = "started"
    /\ thread2' = "running"
    /\ trace' = Append(trace, Event(cur_idx, "exp_cubic.sh"))
    /\ UNCHANGED << pc, cur_idx, thread1 >>
    /\ ExpUnchanged

\* experiment.py:69-70
ClassicCompleted ==
    /\ prog = "experiment" /\ thread2 = "running"
    /\ thread2' = "finished"
    /\ trace' = Append(trace, Event(cur_idx, "exp_cubic.sh ended"))
    /\ UNCHANGED << pc, cur_idx, thread1 >>
    /\ ExpUnchanged

ExpNext ==
    \/ ExpCommand \/ ExpCommandFails
    \/ ExpStartThread1 \/ ExpStartThread2
    \/ ExpJoin1 \/ ExpJoin2
    \/ ExpNextRun
    \/ RunPrague \/ PragueCompleted
    \/ RunClassic \/ ClassicCompleted

SpecExperiment == ExpInit /\ [][ExpNext]_vars

\* the event ev of run `run` is in the trace before position k
Earlier(run, ev, k) ==
    \E j \in 1..(k - 1) : trace[j].run = run /\ trace[j].ev = ev

FlowStarts == { "exp_prague.sh", "exp_cubic.sh" }
AfterFlows ==
    { "stop gnb log", "get prague results", "get classic results",
      "get monitor logs", "get gnb log" }

\* C18: in every run the remote gNB logging and both queue monitors have
\* been started before either flow script is started.
C18_MonitorsBeforeFlows ==
    prog = "experiment" =>
        \A k \in 1..Len(trace) :
            trace[k].ev \in FlowStarts =>
                /\ Earlier(trace[k].run, "start gnb log", k)
                /\ Earlier(trace[k].run, "start dualq monitor", k)
                /\ Earlier(trace[k].run, "start fifo monitor", k)

\* both flow scripts of the second run have been started
C18_Witness ==
    /\ prog = "experiment"
    /\ Len(trace) > 0
    /\ trace[Len(trace)].run = BeginIdx + 1
    /\ Earlier(BeginIdx + 1, "exp_prague.sh", Len(trace) + 1)
    /\ Earlier(BeginIdx + 1, "exp_cubic.sh", Len(trace) + 1)

\* C19: in every interleaving the stop of the remote logging and every
\* retrieval of a run come after both flow scripts of that run have ended,
\* and no flow script runs while the main thread is past the joins.
C19_StopAfterBothFlows ==
    prog = "experiment" =>
        /\ \A k \in 1..Len(trace) :
               trace[k].ev \in AfterFlows =>
                   /\ Earlier(trace[k].run, "exp_prague.sh ended", k)
                   /\ Earlier(trace[k].run, "exp_cubic.sh ended", k)
        /\ ( /\ pc \in 1..(Len(ExpSteps) + 1)
             /\ \E k \in 1..Len(trace) :
                   trace[k].run = cur_idx /\ trace[k].ev \in AfterFlows )
           => thread1 = "finished" /\ thread2 = "finished"

\* the two scripts of a run overlapped (each started before the other
\* ended) and the logging of that run has been stopped
C19_Witness ==
    /\ prog = "experiment"
    /\ \E k \in 1..Len(trace) :
          /\ trace[k].ev = "stop gnb log"
          /\ \E a, b \in 1..(k - 1) :
                /\ trace[a] = Event(trace[k].run, "exp_prague.sh ended")
                /\ trace[b] = Event(trace[k].run, "exp_cubic.sh ended")
                /\ Earlier(trace[k].run, "exp_cubic.sh", a)
                /\ Earlier(trace[k].run, "exp_prague.sh", b)

(***************************************************************************)
(* ss_csv.py: main.  A file that is there is given by the flow_srtt_map    *)
(* that parse_srtt_from_log returns for it (fd -> samples, every list with *)
(* at least one sample); a mean_srtt is the text of a number with three    *)
(* decimals, kept as a whole number of thousandths.                        *)
(***************************************************************************)
\* most run indices in a range of ss files
MaxSsRuns == 2
\* most ss files of a range that are there
MaxSsFiles == 3

\* ss_csv.py:100-106
SsCandidateFiles == << "prague", "cubic", "cubic-2", "cubic-3" >>

\* mutant: every ss file counts as a cubic file
is_cubic_file_Any(file) == TRUE

\* ss_csv.py:67-74  '-ss-cubic' in filename
is_cubic_file(file) == file \in { "cubic", "cubic-2", "cubic-3" }

FlowSamples(fd, samples) == [key |-> fd, vals |-> samples]

SsFileContents ==
    { Missing } \cup
    { [kind |-> "parsed", streams |-> m] :
        m \in { << >>,
                << FlowSamples(5, << 1000 >>) >>,
                << FlowSamples(7, << 1000, 2000 >>), FlowSamples(5, << 4000 >>) >> } }

SsMainFeed(d) ==
    { c \in SsFileContents : c.kind = "missing" \/ PresentCount(d) < MaxSsFiles }

\* f"{statistics.mean(samples):.3f}": the mean to the nearest thousandth
\* (no mean of the model lies half-way between two)
MeanText(samples) == (2 * Sum(samples) + Len(samples)) \div (2 * Len(samples))

SrttRow(idx, file, flow, mean_srtt) ==
    [idx |-> idx, file |-> file, flow |-> flow, mean_srtt |-> mean_srtt]

\* ss_csv.py:118-126  one row per fd that has samples
FlowRows(idx, file, flow_map) ==
    LET with == SelectSeq(flow_map, LAMBDA en : Len(en.vals) > 0)
    IN [k \in 1..Len(with) |->
           SrttRow(idx, file, ToString(with[k].key), MeanText(with[k].vals))]

\* ss_csv.py:129-131, 144-145  the samples of all the flows of a file
RECURSIVE AllSamples(_)
AllSamples(flow_map) ==
    IF flow_map = << >> THEN << >>
    ELSE flow_map[1].vals \o AllSamples(Tail(flow_map))

\* mutant: a group without samples gets a row with the value 0
AggregateRows_ZeroRow(idx, file, samples) ==
    IF samples # << >>
    THEN << SrttRow(idx, file, "ALL_FLOWS", MeanText(samples)) >>
    ELSE << SrttRow(idx, file, "ALL_FLOWS", 0) >>

\* ss_csv.py:132-139, 148-156  the aggregate row of a file or of ALL_CUBIC,
\* none without samples
AggregateRows(idx, file, samples) ==
    IF samples # << >>
    THEN << SrttRow(idx, file, "ALL_FLOWS", MeanText(samples)) >>
    ELSE << >>

SsMainInit ==
    /\ prog = "ss_csv"
    /\ pc = "scan"
    /\ start_idx = 1
    /\ end_idx \in 0..MaxSsRuns
    /\ cur_idx = 1
    /\ fpos = 1
    /\ disk = << >>
    /\ csv_rows = << >>
    /\ cubic_srtt_list = << >>
    /\ input = << >>
    /\ first_timestamp = None
    /\ times = << >>
    /\ ret = << >>
    /\ SsIdle /\ DualqIdle /\ FifoIdle /\ RlcIdle
    /\ IperfIdle /\ FifoDelayIdle /\ CmdIdle /\ ExpIdle

SsMainUnchanged ==
    UNCHANGED << prog, input, first_timestamp, ssVars, times, dualqVars,
                 fifoVars, ret, rlcVars, start_idx, end_idx, iperfVars,
                 link_speed_bps, all_delays, exit_code, stdout, expVars >>

\* ss_csv.py:109-145  one pass of the loop over the candidate files
SsMainFile ==
    /\ prog = "ss_csv" /\ pc = "scan"
    /\ cur_idx <= end_idx /\ fpos <= Len(SsCandidateFiles)
    /\ \E content \in SsMainFeed(disk) :
          LET file == SsCandidateFiles[fpos]
              flow_map == content.streams
          IN /\ disk' = Append(disk, Found(cur_idx, file, content))
             /\ IF content.kind = "missing"
                THEN UNCHANGED << csv_rows, cubic_srtt_list >>
                ELSE /\ csv_rows' =
                           csv_rows \o FlowRows(cur_idx, file, flow_map)
                           \o AggregateRows(cur_idx, file, AllSamples(flow_map))
                     /\ cubic_srtt_list' =
                           IF is_cubic_file(file)
                           THEN (cur_idx :>
                                   (IF cur_idx \in DOMAIN cubic_srtt_list
                                    THEN cubic_srtt_list[cur_idx] ELSE << >>)
                                   \o AllSamples(flow_map))
                                @@ cubic_srtt_list
                           ELSE cubic_srtt_list
    /\ fpos' = fpos + 1
    /\ UNCHANGED << pc, cur_idx, written >>
    /\ SsMainUnchanged

\* ss_csv.py:147-156, then 108 for the next index
SsMainEndRun ==
    /\ prog = "ss_csv" /\ pc = "scan"
    /\ cur_idx <= end_idx /\ fpos > Len(SsCandidateFiles)
    /\ csv_rows' =
           csv_rows \o
           (IF cur_idx \in DOMAIN cubic_srtt_list
            THEN AggregateRows(cur_idx, "ALL_CUBIC", cubic_srtt_list[cur_idx])
            ELSE << >>)
    /\ cur_idx' = cur_idx + 1
    /\ fpos' = 1
    /\ UNCHANGED << pc, disk, cubic_srtt_list, written >>
    /\ SsMainUnchanged

\* ss_csv.py:158-166
SsMainWrite ==
    /\ prog = "ss_csv" /\ pc = "scan"
    /\ cur_idx > end_idx
    /\ written' = << "srtt_results.csv" >>
    /\ pc' = "done"
    /\ UNCHANGED << cur_idx, fpos, disk, csv_rows, cubic_srtt_list >>
    /\ SsMainUnchanged

SsMainNext == SsMainFile \/ SsMainEndRun \/ SsMainWrite

SpecSsMain == SsMainInit /\ [][SsMainNext]_vars

(***************************************************************************)
(* What the ss files found on disk say (used by the claims on ss_csv).     *)
(***************************************************************************)
\* the samples of the files of run idx whose role is in roles (of the flow
\* fd only when fd is not 0)
RECURSIVE SrttSamples(_, _, _, _)
SrttSamples(d, idx, roles, fd) ==
    IF d = << >> THEN << >>
    ELSE (IF d[1].idx = idx /\ d[1].role \in roles
          THEN AllSamples(SelectSeq(d[1].content.streams,
                                    LAMBDA en : fd = 0 \/ en.key = fd))
          ELSE << >>)
         \o SrttSamples(Tail(d), idx, roles, fd)

\* the samples a row stands for
RowSamples(row) ==
    IF row.file = "ALL_CUBIC" THEN SrttSamples(disk, row.idx, CubicRoles, 0)
    ELSE IF row.flow = "ALL_FLOWS" THEN SrttSamples(disk, row.idx, { row.file }, 0)
    ELSE SrttSamples(disk, row.idx, { row.file },
                     CHOOSE fd \in { 5, 7 } : ToString(fd) = row.flow)

RowsOf(idx, file) ==
    { k \in 1..Len(csv_rows) : csv_rows[k].idx = idx /\ csv_rows[k].file = file }

\* C20: a group without samples never produces a row: a missing ss file
\* gives no row at all, a file that is there without samples gives no
\* ALL_FLOWS row, a run without a cubic sample gives no ALL_CUBIC row, and
\* every row that is written stands for at least one sample and holds the
\* mean of its samples, never a 0 put in place of missing data.
C20_NoRowWithoutSamples ==
    prog = "ss_csv" =>
        /\ \A k \in 1..Len(disk) :
               /\ disk[k].content.kind = "missing" =>
                      RowsOf(disk[k].idx, disk[k].role) = { }
               /\ AllSamples(disk[k].content.streams) = << >> =>
                      RowsOf(disk[k].idx, disk[k].role) = { }
        /\ \A idx \in start_idx..end_idx :
               SrttSamples(disk, idx, CubicRoles, 0) = << >> =>
                   RowsOf(idx, "ALL_CUBIC") = { }
        /\ \A k \in 1..Len(csv_rows) :
               LET samples == RowSamples(csv_rows[k])
                   n == Len(samples)
                   gap == csv_rows[k].mean_srtt * n - Sum(samples)
               IN /\ n > 0
                  /\ 2 * gap <= n /\ 2 * gap > 0 - n

\* a range has been written in which a file was missing, a file was there
\* without samples, a run had no cubic sample, and a file gave rows
C20_Witness ==
    /\ prog = "ss_csv" /\ pc = "done"
    /\ \E k \in 1..Len(disk) : disk[k].content.kind = "missing"
    /\ \E k \in 1..Len(disk) :
          disk[k].content.kind = "parsed" /\ disk[k].content.streams = << >>
    /\ \E idx \in start_idx..end_idx :
          SrttSamples(disk, idx, CubicRoles, 0) = << >>
    /\ \E k \in 1..Len(csv_rows) : csv_rows[k].flow = "ALL_FLOWS"

(***************************************************************************)
(* rlc_no_slice_multi.py: main, aggregate_rlc_buffers, compute_means       *)
(* rlc_sliced_multi.py:   analyze_logs_for_range                           *)
(*                                                                         *)
(* The range of gNB logs, one whole file per step: a file that is there is *)
(* given by its lines and is read by the same steps as above, line after   *)
(* line.  A mean is an exact fraction; the text printed is that value      *)
(* with two decimals.                                                      *)
(***************************************************************************)
\* most run indices in a range of gNB logs
MaxGnbRuns == 3

\* a buffer line of RNTI 16 as the script p matches it
BufLine(p, ts, slice, buf) ==
    IF p = "rlc_multi"
    THEN RlcLine("buf", << 1, 6 >>, "", ts, "", buf)
    ELSE RlcLine("sbuf", << 1, 6 >>, "", ts, slice, buf)

\* a mapping line of RNTI 0x10 (16)
MapLine(ue) == RlcLine("map", << 1, 0 >>, ue, 0, "", 0)

GnbLog(lines) == [kind |-> "log", streams |-> lines]

\* the logs a range may hold: no buffer line; UE 2 with a sample at 60 s
\* sharp; a sample before the mapping line of its RNTI; UE 3 past 60 s
GnbContents(p) ==
    { Missing,
      GnbLog(<< RlcNoise >>),
      GnbLog(<< MapLine("2"), BufLine(p, 100, "1", 7), BufLine(p, 160, "1", 9) >>),
      GnbLog(<< BufLine(p, 200, "2", 4), MapLine("2"), BufLine(p, 230, "2", 6),
                BufLine(p, 270, "1", 8) >>),
      GnbLog(<< MapLine("3"), BufLine(p, 50, "2", 3), BufLine(p, 111, "2", 5) >>) }

\* rlc_no_slice_multi.py:31-36, rlc_sliced_multi.py:46-47  at the open
ParseStart == [map |-> << >>, first |-> None, data |-> << >>]

\* rlc_no_slice_multi.py:40-68  the loop body for one line
ParseStep(st, line) ==
    IF line.kind = "map"
    THEN [st EXCEPT !.map = RlcMapAfter(st.map, line)]
    ELSE IF line.kind = "buf"
    THEN LET first == RlcFirstAfter(st.first, line.ts)
         IN [st EXCEPT !.first = first,
                       !.data = ListAppend(st.data, RlcUeOf(st.map, line.rnti),
                                           << line.ts - first, line.buf >>)]
    ELSE st

\* rlc_no_slice_multi.py:8-74
RECURSIVE parse_gnb_log_file(_)
parse_gnb_log_file(lines) ==
    IF lines = << >>
    THEN ParseStart
    ELSE ParseStep(parse_gnb_log_file(SubSeq(lines, 1, Len(lines) - 1)),
                   lines[Len(lines)])

\* rlc_no_slice_multi.py:123-127  the buffer sizes that are kept
RECURSIVE Filtered(_, _)
Filtered(points, skip_first_60) ==
    IF points = << >>
    THEN << >>
    ELSE LET rest == Filtered(Tail(points), skip_first_60)
         IN IF skip_first_60 /\ points[1][1] < Warmup
            THEN rest
            ELSE << points[1][2] >> \o rest

\* np.mean of a list that is not empty
np_mean(values) == Rat(Sum(values), Len(values))

\* rlc_no_slice_multi.py:113-132
compute_means(points, skip_first_60) ==
    IF points = << >>
    THEN Zero
    ELSE IF Filtered(points, skip_first_60) = << >>
         THEN Zero
         ELSE np_mean(Filtered(points, skip_first_60))

Means(overall, after60) == [overall |-> overall, after60 |-> after60]

\* rlc_no_slice_multi.py:154-159
get_means_for_ue(all, ue_id) ==
    Means(compute_means(all[ue_id], FALSE), compute_means(all[ue_id], TRUE))

\* rlc_sliced_multi.py:51-84  the loop body for one line; st.data is the
\* pair of data_ue and data_slice
SlicedStep(st, line) ==
    IF line.kind = "map"
    THEN [st EXCEPT !.map = RlcMapAfter(st.map, line)]
    ELSE IF line.kind = "sbuf"
    THEN LET first == RlcFirstAfter(st.first, line.ts)
         IN [st EXCEPT !.first = first,
                       !.data = << SlicedAppend(st.data[1], RlcUeOf(st.map, line.rnti),
                                                line.ts - first, line.buf),
                                   SlicedAppend(st.data[2], line.slice,
                                                line.ts - first, line.buf) >>]
    ELSE st

\* rlc_sliced_multi.py:46-84  one file, read into data_ue and data_slice
RECURSIVE SlicedFile(_, _, _)
SlicedFile(lines, du, ds) ==
    IF lines = << >>
    THEN [ParseStart EXCEPT !.data = << du, ds >>]
    ELSE SlicedStep(SlicedFile(SubSeq(lines, 1, Len(lines) - 1), du, ds),
                    lines[Len(lines)])

\* rlc_sliced_multi.py:94-105, 113-124  the two means of one UE or slice
SlicedMeans(d, k) ==
    LET lists == IF k \in DOMAIN d THEN d[k] ELSE [all |-> << >>, post60 |-> << >>]
    IN Means(IF lists.all # << >> THEN np_mean(lists.all) ELSE Zero,
             IF lists.post60 # << >> THEN np_mean(lists.post60) ELSE Zero)

GnbInit ==
    /\ prog \in RlcProgs
    /\ pc = "aggregate"
    /\ start_idx = 1
    /\ end_idx \in 0..MaxGnbRuns
    /\ cur_idx = 1
    /\ fpos = 0
    /\ disk = << >>
    /\ ue_data_all = IF prog = "rlc_multi"
                     THEN [u \in { "1", "2", "3", "4" } |-> << >>]
                     ELSE << >>
    /\ files = << >>
    /\ rnti_to_cu_ue = << >>
    /\ ue_data = << >>
    /\ data_ue = << >>
    /\ data_slice = << >>
    /\ input = << >>
    /\ first_timestamp = None
    /\ times = << >>
    /\ ret = << >>
    /\ csv_rows = << >>
    /\ cubic_srtt_list = << >>
    /\ SsIdle /\ DualqIdle /\ FifoIdle
    /\ IperfIdle /\ FifoDelayIdle /\ CmdIdle /\ ExpIdle

GnbUnchanged ==
    UNCHANGED << prog, input, first_timestamp, ssVars, times, dualqVars,
                 fifoVars, files, rnti_to_cu_ue, ue_data, start_idx, end_idx,
                 fpos, csv_rows, iperfVars, cubic_srtt_list, link_speed_bps,
                 all_delays, cmdVars, expVars >>

\* rlc_no_slice_multi.py:94-109  one pass of the loop over the range
AggregateFile ==
    /\ prog = "rlc_multi" /\ pc = "aggregate"
    /\ cur_idx <= end_idx
    /\ \E content \in GnbContents(prog) :
          LET file_data == parse_gnb_log_file(content.streams).data
          IN /\ disk' = Append(disk, Found(cur_idx, "gnb_log", content))
             /\ ue_data_all' =
                    IF content.kind = "missing" \/ file_data = << >>
                    THEN ue_data_all
                    ELSE RlcMerge(ue_data_all, file_data)
    /\ cur_idx' = cur_idx + 1
    /\ UNCHANGED << pc, ret, data_ue, data_slice >>
    /\ GnbUnchanged

\* rlc_no_slice_multi.py:111, 147-182
RlcMultiMain ==
    /\ prog = "rlc_multi" /\ pc = "aggregate"
    /\ cur_idx > end_idx
    /\ LET ue234_all_data ==
               ue_data_all["2"] \o ue_data_all["3"] \o ue_data_all["4"]
       IN ret' = [g \in { "1", "2", "3", "4", "234" } |->
                     IF g = "234"
                     THEN Means(compute_means(ue234_all_data, FALSE),
                                compute_means(ue234_all_data, TRUE))
                     ELSE get_means_for_ue(ue_data_all, g)]
    /\ pc' = "printed"
    /\ UNCHANGED << cur_idx, disk, ue_data_all, data_ue, data_slice >>
    /\ GnbUnchanged

\* rlc_sliced_multi.py:40-84  one pass of the loop over the range
SlicedLogFile ==
    /\ prog = "rlc_sliced_multi" /\ pc = "aggregate"
    /\ cur_idx <= end_idx
    /\ \E content \in GnbContents(prog) :
          LET after == SlicedFile(content.streams, data_ue, data_slice).data
          IN /\ disk' = Append(disk, Found(cur_idx, "gnb_log", content))
             /\ data_ue' = IF content.kind = "missing" THEN data_ue ELSE after[1]
             /\ data_slice' = IF content.kind = "missing" THEN data_slice ELSE after[2]
    /\ cur_idx' = cur_idx + 1
    /\ UNCHANGED << pc, ret, ue_data_all >>
    /\ GnbUnchanged

\* rlc_sliced_multi.py:86-126
SlicedReport ==
    /\ prog = "rlc_sliced_multi" /\ pc = "aggregate"
    /\ cur_idx > end_idx
    /\ ret' = [g \in { "1", "2", "3", "4", "slice 1", "slice 2" } |->
                  IF g = "slice 1" THEN SlicedMeans(data_slice, "1")
                  ELSE IF g = "slice 2" THEN SlicedMeans(data_slice, "2")
                  ELSE SlicedMeans(data_ue, g)]
    /\ pc' = "printed"
    /\ UNCHANGED << cur_idx, disk, ue_data_all, data_ue, data_slice >>
    /\ GnbUnchanged

GnbNext == AggregateFile \/ RlcMultiMain \/ SlicedLogFile \/ SlicedReport

SpecGnb == GnbInit /\ [][GnbNext]_vars

\* the log files one after the other and the log files with the monitor
\* files, each read by its own script
RelTimeInit == GnbInit \/ FifoInit

RelTimeNext == GnbNext \/ FifoNext

SpecRelTime == RelTimeInit /\ [][RelTimeNext]_vars

(***************************************************************************)
(* What the gNB logs of a range say (used by the claims on the range).     *)
(***************************************************************************)
ReportedUes == { "1", "2", "3", "4" }

\* the points of UE u when the first k files of order (a permutation of the
\* files of the range) are pooled one after the other
RECURSIVE PooledIn(_, _, _, _)
PooledIn(d, order, u, k) ==
    IF k = 0
    THEN << >>
    ELSE PooledIn(d, order, u, k - 1)
            \o RlcFilePoints(prog, d[order[k]].content.streams, u,
                             Len(d[order[k]].content.streams))

\* the points of UE u in the files of the range in index order
RangePoints(d, u) == PooledIn(d, [k \in 1..Len(d) |-> k], u, Len(d))

Buffers(points) == [i \in 1..Len(points) |-> points[i][2]]

\* the buffer sizes of the points at relative time 60 s or later
AtOrAfterWarmup(points) ==
    Buffers(SelectSeq(points, LAMBDA pt : pt[1] >= Warmup))

\* the buffer sizes of the points later than 60 s
LaterThanWarmup(points) ==
    Buffers(SelectSeq(points, LAMBDA pt : pt[1] > Warmup))

\* m is the mean of the values, 0.0 when there is none
IsMeanOrZero(m, values) ==
    IF values = << >>
    THEN m = [num |-> 0, den |-> 1]
    ELSE IsArithmeticMean(m, values)

Printed(p) == prog = p /\ pc = "printed"

\* C21: plain pooling is order-independent: for every order in which the
\* files of the range are pooled, the count of every UE's pool and the
\* means reported for it (UE 1..4, and UE 2,3,4 together) are the ones the
\* script has come to.
C21_PoolingOrderIndependent ==
    Printed("rlc_multi") =>
        \A order \in Permutations(1..Len(disk)) :
            /\ \A u \in ReportedUes :
                  LET pool == PooledIn(disk, order, u, Len(disk))
                  IN /\ Len(pool) = Len(ue_data_all[u])
                     /\ IsMeanOrZero(ret[u].overall, Buffers(pool))
                     /\ IsMeanOrZero(ret[u].after60, AtOrAfterWarmup(pool))
            /\ LET pool == PooledIn(disk, order, "2", Len(disk))
                           \o PooledIn(disk, order, "3", Len(disk))
                           \o PooledIn(disk, order, "4", Len(disk))
               IN /\ IsMeanOrZero(ret["234"].overall, Buffers(pool))
                  /\ IsMeanOrZero(ret["234"].after60, AtOrAfterWarmup(pool))

\* statistics have been printed for a range in which two orders of the
\* files pool the points of UE 2 in different sequences
C21_Witness ==
    /\ Printed("rlc_multi")
    /\ \E o1, o2 \in Permutations(1..Len(disk)) :
          PooledIn(disk, o1, "2", Len(disk)) # PooledIn(disk, o2, "2", Len(disk))
    /\ ret["2"].overall.num > 0

\* C24: every statistic after the warm-up takes exactly the samples whose
\* relative time is 60 s or more: a sample at 60 s sharp is counted, by the
\* no-slice and by the sliced aggregation alike.
C24_SameWindow ==
    (prog \in RlcProgs /\ pc = "printed") =>
        \A u \in ReportedUes :
            IsMeanOrZero(ret[u].after60, AtOrAfterWarmup(RangePoints(disk, u)))

\* the timestamp of the first line of the file read so far whose first
\* token parses as a float (-1 when there is none)
FirstFloatTs(inp) ==
    IF \E i \in 1..Len(inp) : ParseableAsFloat(inp[i].ts)
    THEN inp[CHOOSE i \in 1..Len(inp) :
                /\ ParseableAsFloat(inp[i].ts)
                /\ \A j \in 1..(i - 1) : ~ParseableAsFloat(inp[j].ts)].ts.val
    ELSE -1

\* relative time in the gNB logs: every point is timed from the first
\* buffer line of its own file (RlcFileStart), which is therefore at 0
\* (rlc_sliced_multi.py keeps no time: its lists after 60 s show it)
RlcRelTimePerFile ==
    /\ prog = "rlc_multi" /\ pc \in { "aggregate", "printed" } =>
          \A u \in RlcUes : ListOf(ue_data_all, u) = RangePoints(disk, u)
    /\ prog = "rlc_sliced_multi" /\ pc \in { "aggregate", "printed" } =>
          \A u \in RlcUes :
              (IF u \in DOMAIN data_ue THEN data_ue[u].post60 ELSE << >>)
                  = LaterThanWarmup(RangePoints(disk, u))

EarlyLines(lines) ==
    { i \in 1..Len(lines) :
        /\ lines[i].kind \in { "buf", "sbuf" }
        /\ ~\E k \in 1..(i - 1) : RlcMapsRntiOf(lines, k, i) }

RECURSIVE EarlyCount(_, _)
EarlyCount(d, p) ==
    IF d = << >>
    THEN 0
    ELSE Cardinality({ i \in EarlyLines(d[1].content.streams) :
                          RlcIsBufferLine(p, d[1].content.streams[i]) })
         + EarlyCount(Tail(d), p)

\* the pool kept for UNKNOWN
UnknownPool ==
    IF prog = "rlc_multi"
    THEN Buffers(ListOf(ue_data_all, "UNKNOWN"))
    ELSE AllOf(data_ue, "UNKNOWN")

\* C29: the UE of a buffer line is fixed when the line is read: a buffer
\* line before the first mapping line of its RNTI is UNKNOWN's, also when
\* the mapping line comes later in the file, and it is in none of the
\* statistics reported for UE 1..4 (nor in that of UE 2,3,4 together).
C29_UnknownStaysUnknown ==
    (prog \in RlcProgs /\ pc = "printed") =>
        /\ Len(UnknownPool) = EarlyCount(disk, prog)
        /\ \A u \in ReportedUes :
              IsMeanOrZero(ret[u].overall, Buffers(RangePoints(disk, u)))
        /\ prog = "rlc_multi" =>
              IsMeanOrZero(ret["234"].overall,
                           Buffers(RangePoints(disk, "2") \o RangePoints(disk, "3")
                                   \o RangePoints(disk, "4")))

\* statistics have been printed for a range with a log whose first buffer
\* line comes before the mapping line of its RNTI
C29_Witness ==
    /\ prog \in RlcProgs /\ pc = "printed"
    /\ \E k \in 1..Len(disk) :
          \E i \in EarlyLines(disk[k].content.streams) :
              \E m \in (i + 1)..Len(disk[k].content.streams) :
                  RlcMapsRntiOf(disk[k].content.streams, m, i)
    /\ Len(UnknownPool) >= 1
    /\ ret["2"].overall.num > 0

(***************************************************************************)
(* The order of the rows of ss_csv.py.                                     *)
(***************************************************************************)
\* place of a row's file within its run: the candidate files in their
\* order, ALL_CUBIC behind them
FileRank(file) ==
    IF file = "ALL_CUBIC" THEN 5
    ELSE CHOOSE k \in 1..4 : << "prague", "cubic", "cubic-2", "cubic-3" >>[k] = file

\* v is the mean of the samples to the nearest thousandth
IsRoundedMean(v, samples) ==
    /\ samples # << >>
    /\ 2 * (v * Len(samples) - Sum(samples)) <= Len(samples)
    /\ 2 * (v * Len(samples) - Sum(samples)) > 0 - Len(samples)

\* C22: in the rows of ss_csv main the run indices ascend; within a run the
\* rows of the files come in the order prague, cubic, cubic-2, cubic-3,
\* the per-flow rows of a file before its ALL_FLOWS row; a run has at most
\* one ALL_CUBIC row, behind all file rows of the run and before every row
\* of the next run, and its value is the mean of the pooled samples of
\* exactly the cubic files of that run.
C22_RowOrder ==
    prog = "ss_csv" =>
        /\ \A j, k \in 1..Len(csv_rows) :
              j < k =>
                 /\ csv_rows[j].idx <= csv_rows[k].idx
                 /\ csv_rows[j].idx = csv_rows[k].idx =>
                       /\ FileRank(csv_rows[j].file) <= FileRank(csv_rows[k].file)
                       /\ csv_rows[j].file = csv_rows[k].file =>
                             csv_rows[j].flow # "ALL_FLOWS"
        /\ \A k \in 1..Len(csv_rows) :
              /\ csv_rows[k].idx \in start_idx..end_idx
              /\ csv_rows[k].file = "ALL_CUBIC" =>
                    /\ csv_rows[k].flow = "ALL_FLOWS"
                    /\ IsRoundedMean(csv_rows[k].mean_srtt,
                                     SrttSamples(disk, csv_rows[k].idx,
                                                 { "cubic", "cubic-2", "cubic-3" }, 0))

\* two runs have been written, each with an ALL_CUBIC row, the first with a
\* prague file whose samples are not those of its cubic files
C22_Witness ==
    /\ prog = "ss_csv" /\ pc = "done"
    /\ RowsOf(1, "ALL_CUBIC") # { } /\ RowsOf(2, "ALL_CUBIC") # { }
    /\ \E j, k \in 1..Len(csv_rows) :
          /\ csv_rows[j].idx = 1 /\ csv_rows[j].file = "prague"
          /\ csv_rows[j].flow = "ALL_FLOWS"
          /\ csv_rows[k].idx = 1 /\ csv_rows[k].file = "ALL_CUBIC"
          /\ csv_rows[j].mean_srtt # csv_rows[k].mean_srtt
    /\ \E j, k \in 1..Len(csv_rows) :
          /\ csv_rows[j].file = "ALL_CUBIC" /\ csv_rows[k].file = "ALL_CUBIC"
          /\ csv_rows[j].mean_srtt # csv_rows[k].mean_srtt

(***************************************************************************)
(* fifo_plot.py: plot_fifo_monitor, on what parse_fifo_file returned.      *)
(* A queue delay is an exact fraction, in microseconds.                    *)
(***************************************************************************)
\* fifo_plot.py:68  link_speed_mbps=50.0
DefaultLinkMbps == 50

\* zip(a, b, c, d)
Zip4(a, b, c, d) == [i \in 1..Len(a) |-> << a[i], b[i], c[i], d[i] >>]

\* mutant: the difference to the sample before, also when it is negative
InstDrops_Signed(dropped_sorted) ==
    [i \in 1..Len(dropped_sorted) |->
        IF i = 1 THEN 0 ELSE dropped_sorted[i] - dropped_sorted[i - 1]]

\* fifo_plot.py:107-113
InstDrops(dropped_sorted) ==
    [i \in 1..Len(dropped_sorted) |->
        IF i = 1
        THEN 0
        ELSE IF dropped_sorted[i] - dropped_sorted[i - 1] > 0
             THEN dropped_sorted[i] - dropped_sorted[i - 1]
             ELSE 0]

\* fifo_plot.py:98-148  sort by time, times from the first one, drops per
\* sample, queue delays, the figure
PlotFifoMonitor ==
    /\ prog = "fifo" /\ pc = "done"
    /\ times # << >>
    /\ LET combined == SortedByKey(Zip4(times, dropped_vals, backlog_pkts,
                                        backlog_bytes_vals))
           times_sorted == Column(combined, 1)
           dropped_sorted == Column(combined, 2)
       IN ret' = [times_sorted |-> times_sorted,
                  dropped_sorted |-> dropped_sorted,
                  backlog_p_sorted |-> Column(combined, 3),
                  rel_times |-> [i \in 1..Len(combined) |->
                                    times_sorted[i] - times_sorted[1]],
                  inst_drops |-> InstDrops(dropped_sorted),
                  queue_delays |-> [i \in 1..Len(combined) |->
                                       Rat(combined[i][4] * 8, DefaultLinkMbps)]]
    /\ written' = << "fifo_monitor_singleplot.png" >>
    /\ stdout' = << "plot saved" >>
    /\ pc' = "plotted"
    /\ UNCHANGED << prog, input, first_timestamp, ssVars, times, dualqVars,
                    fifoVars, rlcVars, rangeVars, csv_rows, iperfVars,
                    cubic_srtt_list, link_speed_bps, all_delays, exit_code,
                    expVars >>

\* fifo_plot.py:94-96  nothing was parsed
PlotFifoNoData ==
    /\ prog = "fifo" /\ pc = "done"
    /\ times = << >>
    /\ stdout' = << "no data" >>
    /\ exit_code' = 0
    /\ pc' = "exited"
    /\ UNCHANGED << prog, input, first_timestamp, ssVars, times, dualqVars,
                    fifoVars, ret, rlcVars, rangeVars, csv_rows, iperfVars,
                    cubic_srtt_list, link_speed_bps, all_delays, written,
                    expVars >>

FifoPlotNext == FifoNext \/ PlotFifoMonitor \/ PlotFifoNoData

SpecFifoPlot == FifoInit /\ [][FifoPlotNext]_vars

NonDecreasing(s) == \A i \in 2..Len(s) : s[i - 1] <= s[i]

\* C23: the series of instantaneous drops has the length of the sample
\* series, starts with 0 and has no negative element: a sample adds the
\* rise of the time-sorted cumulative counter since the sample before and
\* adds 0 where the counter fell; when the counter never falls the series
\* sums up to the last minus the first cumulative value.
C23_InstDrops ==
    (prog = "fifo" /\ pc = "plotted") =>
        LET d == ret.dropped_sorted
            inst == ret.inst_drops
        IN /\ Len(inst) = Len(times)
           /\ Len(d) = Len(times)
           /\ NonDecreasing(ret.times_sorted)
           /\ inst[1] = 0
           /\ \A i \in 1..Len(inst) : inst[i] >= 0
           /\ \A i \in 2..Len(inst) :
                 /\ d[i] < d[i - 1] => inst[i] = 0
                 /\ d[i] >= d[i - 1] => inst[i] = d[i] - d[i - 1]
           /\ NonDecreasing(d) => Sum(inst) = d[Len(d)] - d[1]

\* a file has been plotted in which the counter rose and fell
C23_Witness ==
    /\ prog = "fifo" /\ pc = "plotted"
    /\ Len(ret.inst_drops) >= 3
    /\ \E i \in 2..Len(ret.dropped_sorted) :
          ret.dropped_sorted[i] < ret.dropped_sorted[i - 1]
    /\ \E i \in 2..Len(ret.inst_drops) : ret.inst_drops[i] > 0

(***************************************************************************)
(* The multi-UE summary of iperf_csv.py and the bars of thp_plot.py.       *)
(***************************************************************************)
\* the cubic file roles that have a flow of the socket on disk
RolesWithSocket(d, sock) ==
    { role \in { "cubic", "cubic-2", "cubic-3" } :
        \E k \in 1..Len(d) :
            /\ d[k].role = role /\ d[k].content.kind = "json"
            /\ \E j \in 1..Len(d[k].content.streams) :
                  d[k].content.streams[j].socket = sock }

\* C26: a per-UE row of type cubic of the multi-UE summary is about one
\* cubic UE: its values all come from the files of one cubic role, one
\* value per run, so that its count is at most the number of runs of the
\* range.
C26_CubicRowIsOneUe ==
    (prog = "iperf_csv" /\ pc = "done") =>
        \A k \in 1..Len(multi_ue_rows) :
            (multi_ue_rows[k].type = "cubic" /\ multi_ue_rows[k].ue # "ALL") =>
                /\ multi_ue_rows[k].count <= end_idx - start_idx + 1
                /\ Cardinality(RolesWithSocket(disk, IntOf(multi_ue_rows[k].ue))) = 1

\* C27: the combined cubic statistic is the same in both scripts: the mean
\* and the stddev of the cubic ALL row of the multi-UE summary are the mean
\* and the stddev of the "cubic (combo)" bar that thp_plot draws from the
\* detail CSV of the same invocation.
C27_SameCombinedCubic ==
    (prog = "thp_plot" /\ pc = "done") =>
        /\ ret.bars[2].label = "cubic (combo)"
        /\ ret.bars[2].mu =
              multi_ue_rows[CHOOSE k \in 1..Len(multi_ue_rows) :
                               /\ multi_ue_rows[k].type = "cubic"
                               /\ multi_ue_rows[k].ue = "ALL"].mean_mbps
        /\ ret.bars[2].sd =
              multi_ue_rows[CHOOSE k \in 1..Len(multi_ue_rows) :
                               /\ multi_ue_rows[k].type = "cubic"
                               /\ multi_ue_rows[k].ue = "ALL"].std_mbps

(***************************************************************************)
(* experiment.py: the order of the runs                                    *)
(***************************************************************************)
Retrievals ==
    { "get prague results", "get classic results", "get monitor logs",
      "get gnb log" }

FlowEnds == { "exp_prague.sh ended", "exp_cubic.sh ended" }

\* how many flow scripts are executing after the first k events
Executing(k) ==
    Cardinality({ j \in 1..k : trace[j].ev \in FlowStarts })
        - Cardinality({ j \in 1..k : trace[j].ev \in FlowEnds })

\* run_experiment has left its loop
ExpReturned == prog = "experiment" /\ pc = 1 /\ cur_idx > end_idx

\* C28: the runs are start_idx .. end_idx in ascending order, one at a
\* time: the first step of run i+1 comes after every retrieval of run i,
\* at no time more than two flow scripts are executing, and a loop that
\* has been left has performed every run of the range to its last
\* retrieval.
C28_OneRunAtATime ==
    prog = "experiment" =>
        /\ \A k \in 1..Len(trace) :
               /\ trace[k].run \in start_idx..end_idx
               /\ k = 1 => trace[k].run = start_idx
               /\ k > 1 => trace[k].run \in
                               { trace[k - 1].run, trace[k - 1].run + 1 }
               /\ trace[k].run > start_idx =>
                      \A ev \in Retrievals :
                          Earlier(trace[k].run - 1, ev, k)
               /\ Executing(k) \in 0..2
        /\ ExpReturned =>
               \A r \in start_idx..end_idx :
                   /\ Earlier(r, "rm results", Len(trace) + 1)
                   /\ \A ev \in FlowStarts \cup FlowEnds \cup Retrievals :
                          Earlier(r, ev, Len(trace) + 1)

\* a range of two runs has been performed, and in its second run both
\* flow scripts were executing at once
C28_Witness ==
    /\ ExpReturned
    /\ end_idx = start_idx + 1
    /\ \E k \in 1..Len(trace) :
          trace[k].run = end_idx /\ Executing(k) = 2

(***************************************************************************)
(* fifo_plot_multi.py: the pool of compute_mean_queue_delay                *)
(***************************************************************************)
\* b_bytes * 8 / speed_bps is at most 0.1 s
WithinTenth(b_bytes, speed_bps) == b_bytes * 8 * 10 <= speed_bps

\* the backlog samples of every file read so far, in the order read
RECURSIVE BacklogSamples(_)
BacklogSamples(d) ==
    IF d = << >> THEN << >>
    ELSE (IF d[1].content.kind = "parsed" THEN d[1].content.streams
          ELSE << >>) \o BacklogSamples(Tail(d))

\* the delays of the samples of at most 0.1 s
RECURSIVE DelaysWithinTenth(_, _)
DelaysWithinTenth(samples, speed_bps) ==
    IF samples = << >> THEN << >>
    ELSE (IF WithinTenth(samples[1], speed_bps)
          THEN << DelayMs(samples[1], speed_bps) >>
          ELSE << >>) \o DelaysWithinTenth(Tail(samples), speed_bps)

====
